---- MODULE Spec2Model ----
(***************************************************************************)
(* Punch ingestion pipeline of prewarning: the two polling punch sources   *)
(* (PunchSourceOlaMySql, PunchSourceOlresultatSe), the configuration store *)
(* with its file watcher (Config) and the state file (StateSaverMixin),    *)
(* and the two roster sources (StartListSourceFile, StartListSourceOlaMySql)*)
(*                                                                         *)
(* Encoding of values:                                                     *)
(*   punch ids        1..n, 0 stands for None / the empty option           *)
(*   modifyDate       1..MaxTime, 0 stands for None ('0000-00-00 ...')     *)
(*   str(value) / get_value of the configuration are injective on these    *)
(*   values and keep their order, None is written as the empty option.     *)
(***************************************************************************)
EXTENDS Integers, Sequences, FiniteSets, TLC

\* ------------------------------------------------------------------ bounds
NumRows == 2        \* rows of the SplitTimes backlog (database source)
MaxTime == 2        \* distinct modifyDate values of the backlog
RaceRows == 2       \* rows of the backlog in the fine-grained interleaving
MaxReceived == 3    \* punches one listener records before delivery stops
MaxEdits == 1       \* external edits of the configuration file
NumRecords == 2     \* records the server of the URL source holds
MaxCrashes == 1     \* times the process is killed
NumTeams == 2       \* teams of a start list file
NumResults == 2     \* rows of the Results table (database roster)
MaxPunches == 2     \* punches the punch source delivers to the listeners
MaxNow == 3         \* seconds the clock runs
MaxRegistrations == 2   \* calls of register_punch_listener per listener

\* ------------------------------------------------------- program constants
MySec == "PunchSourceOlaMySql"
SeSec == "PunchSourceOlresultatSe"
Sections == {MySec, SeSec}
Codes == {101, 202}
Listeners == {"app", "metrics"}
Cards == {"7001", "7002"}
Bibs == {1, 2}
Legs == {1}
FileName == "StartListSourceFile"
OlaName == "StartListSourceOlaMySql"
IntroSoundTriggerTimeoutSeconds == 2

VARIABLES
    \* database (SplitTimes table)
    my_rows,
    \* PunchSourceOlaMySql
    my_pc, my_running,
    my_last_received_punch_id, my_last_modify_time, my_last_written_punch_ids,
    my_control_ids, split_times, my_idx,
    \* Config and its observer thread
    config, config_file, prev_config_sections,
    watch_scheduled, fs_event, w_pc, new_last_received_punch_id,
    \* _PunchSourceBase listeners
    punch_listeners, received,
    \* history
    edits, my_written, cb0, my_iter_received, fault,
    \* server of the URL source, PunchSourceOlresultatSe and its state file
    se_records, se_proc, se_pc, se_running, se_last_received_punch_id,
    se_control_codes, se_lines, se_idx, state_file,
    se_start_cursor, se_first_cursor, se_run_received, se_lrp_edited, crashes,
    \* the start list file, StartListSourceFile and a lookup made on it
    sl_file, sl_pc, sl_running, sl_event, sl_data, sl_idx, team_names, runners,
    sl_old, sl_lookup,
    \* the Results table, StartListSourceOlaMySql and a lookup made on it
    ol_results, ol_running, ol_lookup,
    \* PreWarning: the punch and announcement queues and their two threads
    start_list_source_name, punch_queue, announcement_queue, pp_pc, ap_pc,
    ap_cur, last_sound_time, now, displayed, announced, other_playing,
    delivered, registrations,
    \* the option EnableIntroSound of the live configuration
    enable_intro_sound,
    \* StateSaverMixin: its ConfigParser, its data_read flag of the option,
    \* and the value of the last _save_value that returned
    ss_config, data_read, ss_saved

my_vars == <<my_rows, my_pc, my_running, my_last_received_punch_id,
             my_last_modify_time, my_last_written_punch_ids, my_control_ids,
             split_times, my_idx>>
cfg_vars == <<config, config_file, prev_config_sections, watch_scheduled,
              fs_event, w_pc, new_last_received_punch_id>>
lst_vars == <<punch_listeners, received>>
hist_vars == <<edits, my_written, cb0, my_iter_received, fault>>

se_vars == <<se_records, se_proc, se_pc, se_running, se_last_received_punch_id,
             se_control_codes, se_lines, se_idx, state_file,
             se_start_cursor, se_first_cursor, se_run_received, se_lrp_edited,
             crashes>>

sl_vars == <<sl_file, sl_pc, sl_running, sl_event, sl_data, sl_idx, team_names,
             runners, sl_old, sl_lookup>>
ol_vars == <<ol_results, ol_running, ol_lookup>>

pw_vars == <<start_list_source_name, punch_queue, announcement_queue, pp_pc,
             ap_pc, ap_cur, last_sound_time, now, displayed, announced,
             other_playing, delivered, registrations, enable_intro_sound,
             ss_config, data_read, ss_saved>>

vars == <<my_vars, cfg_vars, lst_vars, hist_vars, se_vars, sl_vars, ol_vars,
          pw_vars>>

\* ----------------------------------------------------------------- helpers
InSeq(x, s) == \E i \in DOMAIN s : s[i] = x

NoDuplicates(s) == \A i, j \in DOMAIN s : i # j => s[i] # s[j]

\* The configuration as the application's defaults create it.
DefaultSections ==
    [s \in Sections |->
        IF s = MySec
        THEN [LastModifiedTime |-> 0, LastReceivedPunchId |-> 0]
        ELSE [LastReceivedPunchId |-> 0, ControlCodes |-> {101}]]

\* A file opened with mode 'w' and not yet written is empty.
TruncatedFile == [empty |-> TRUE, sections |-> DefaultSections]

FileWith(sections) == [empty |-> FALSE, sections |-> sections]

\* ConfigParser.read: the options of the file replace those in memory; an
\* empty file leaves the parser as it is.
ConfigRead(mem, file) == IF file.empty THEN mem ELSE file.sections

\* A modification of the configuration file queues an event for the observer
\* thread while the directory is being watched; the observer's queue skips an
\* event equal to the one queued last.
FsNotify(pending, scheduled) == pending \/ scheduled

\* -------------------------------------------------------------- the database
\* get_event_race_split_times: the rows of the selected controls whose
\* modifyDate is not before last_modify_time, ordered by modifyDate; the
\* order of rows with equal modifyDate is left to the database.
SelectedRows(rows, control_ids, last_modify_time) ==
    {i \in DOMAIN rows : /\ rows[i].controlCode \in control_ids
                         /\ rows[i].modifyDate >= last_modify_time}

get_event_race_split_times(rows, control_ids, last_modify_time) ==
    LET sel == SelectedRows(rows, control_ids, last_modify_time)
        n == Cardinality(sel)
    IN {s \in [1..n -> sel] :
            /\ \A i, j \in 1..n : i # j => s[i] # s[j]
            /\ \A i, j \in 1..n :
                  i < j => rows[s[i]].modifyDate <= rows[s[j]].modifyDate}

\* Backlogs: ids are the row numbers, modifyDate does not decrease with the id.
Backlogs(n) ==
    {r \in [1..n -> [controlCode : Codes, modifyDate : 1..MaxTime]] :
        \A i, j \in 1..n : i < j => r[i].modifyDate <= r[j].modifyDate}

\* ------------------------------------------------------ PunchSourceOlaMySql
\* (variant: every incoming id is taken as not written by this process)
NotInLastWritten_Always(new_id, last_written) == TRUE

\* _not_in_last_written
NotInLastWritten(new_id, last_written) == ~InSeq(new_id, last_written)

\* _notify_punch_listeners
NotifyPunchListeners(rcv, listeners, punch) ==
    [l \in DOMAIN rcv |-> IF l \in listeners THEN Append(rcv[l], punch) ELSE rcv[l]]

CanReceive == \A l \in punch_listeners : Len(received[l]) < MaxReceived

\* while self._running: self._last_written_punch_ids.clear()
MyLoopTest ==
    /\ my_pc = "loop"
    /\ IF my_running
       THEN /\ my_last_written_punch_ids' = <<>>
            /\ my_pc' = "query"
       ELSE /\ my_pc' = "stopped"
            /\ UNCHANGED my_last_written_punch_ids
    /\ my_iter_received' = <<>>
    /\ fault' = "none"
    /\ UNCHANGED <<my_rows, my_running, my_last_received_punch_id,
                   my_last_modify_time, my_control_ids, split_times, my_idx>>
    /\ UNCHANGED <<cfg_vars, lst_vars, sl_vars, ol_vars, pw_vars, edits, my_written, cb0>>
    /\ UNCHANGED se_vars

\* split_times = self.ola_mysql.get_event_race_split_times(...)
MyQuery ==
    /\ my_pc = "query"
    /\ \E batch \in get_event_race_split_times(my_rows, my_control_ids,
                                               my_last_modify_time) :
          split_times' = batch
    /\ my_idx' = 1
    /\ my_pc' = "iter"
    /\ UNCHANGED <<my_rows, my_running, my_last_received_punch_id,
                   my_last_modify_time, my_last_written_punch_ids, my_control_ids>>
    /\ UNCHANGED <<cfg_vars, lst_vars, sl_vars, ol_vars, pw_vars, hist_vars>>
    /\ UNCHANGED se_vars

\* (variant: a failed query puts the watermark back to the beginning)
MyQueryFail_ResetWatermark ==
    /\ my_pc = "query"
    /\ my_pc' = "sleep"
    /\ fault' = "transport"
    /\ my_last_modify_time' = 0
    /\ UNCHANGED <<my_rows, my_running, my_last_received_punch_id,
                   my_last_written_punch_ids, my_control_ids, split_times,
                   my_idx>>
    /\ UNCHANGED <<cfg_vars, lst_vars, sl_vars, ol_vars, pw_vars, edits, my_written, cb0,
                   my_iter_received>>
    /\ UNCHANGED se_vars

\* except OperationalError: the query failed, the iteration ends
MyQueryFail ==
    /\ my_pc = "query"
    /\ my_pc' = "sleep"
    /\ fault' = "transport"
    /\ UNCHANGED <<my_rows, my_running, my_last_received_punch_id,
                   my_last_modify_time, my_last_written_punch_ids,
                   my_control_ids, split_times, my_idx>>
    /\ UNCHANGED <<cfg_vars, lst_vars, sl_vars, ol_vars, pw_vars, edits, my_written, cb0,
                   my_iter_received>>
    /\ UNCHANGED se_vars

\* (variant: the punch is not handed to the listeners before the cursor moves)
MyForNext_NoNotify ==
    /\ my_pc = "iter"
    /\ IF my_idx > Len(split_times)
       THEN /\ my_pc' = "sleep"
            /\ UNCHANGED my_idx
       ELSE IF my_last_received_punch_id = split_times[my_idx]
       THEN /\ my_idx' = my_idx + 1
            /\ UNCHANGED my_pc
       ELSE /\ my_pc' = "set_id"
            /\ UNCHANGED my_idx
    /\ UNCHANGED <<my_rows, my_running, my_last_received_punch_id,
                   my_last_modify_time, my_last_written_punch_ids,
                   my_control_ids, split_times>>
    /\ UNCHANGED <<cfg_vars, lst_vars, sl_vars, ol_vars, pw_vars, hist_vars, se_vars>>

\* for split_time in split_times: skip the last received punch, notify the
\* listeners of any other
MyForNext ==
    /\ my_pc = "iter"
    /\ IF my_idx > Len(split_times)
       THEN /\ my_pc' = "sleep"
            /\ UNCHANGED <<my_idx, received, my_iter_received>>
       ELSE IF my_last_received_punch_id = split_times[my_idx]
       THEN /\ my_idx' = my_idx + 1
            /\ UNCHANGED <<my_pc, received, my_iter_received>>
       ELSE /\ CanReceive
            /\ received' = NotifyPunchListeners(received, punch_listeners,
                                                split_times[my_idx])
            /\ my_iter_received' = Append(my_iter_received, split_times[my_idx])
            /\ my_pc' = "set_id"
            /\ UNCHANGED my_idx
    /\ UNCHANGED <<my_rows, my_running, my_last_received_punch_id,
                   my_last_modify_time, my_last_written_punch_ids,
                   my_control_ids, split_times>>
    /\ UNCHANGED <<cfg_vars, punch_listeners, sl_vars, ol_vars, pw_vars, edits,
                   my_written, cb0, fault>>
    /\ UNCHANGED se_vars

\* self.last_received_punch_id = split_time['id']
MySetId ==
    /\ my_pc = "set_id"
    /\ my_last_received_punch_id' = split_times[my_idx]
    /\ my_pc' = "append"
    /\ UNCHANGED <<my_rows, my_running, my_last_modify_time,
                   my_last_written_punch_ids, my_control_ids, split_times, my_idx>>
    /\ UNCHANGED <<cfg_vars, lst_vars, sl_vars, ol_vars, pw_vars, hist_vars>>
    /\ UNCHANGED se_vars

\* self._last_written_punch_ids.append(self.last_received_punch_id)
MyAppend ==
    /\ my_pc = "append"
    /\ my_last_written_punch_ids' =
          Append(my_last_written_punch_ids, my_last_received_punch_id)
    /\ my_pc' = "set_time"
    /\ UNCHANGED <<my_rows, my_running, my_last_received_punch_id,
                   my_last_modify_time, my_control_ids, split_times, my_idx>>
    /\ UNCHANGED <<cfg_vars, lst_vars, sl_vars, ol_vars, pw_vars, hist_vars>>
    /\ UNCHANGED se_vars

\* self.last_modify_time = split_time['modifyDate']
MySetTime ==
    /\ my_pc = "set_time"
    /\ my_last_modify_time' = my_rows[split_times[my_idx]].modifyDate
    /\ my_pc' = "write_lmt"
    /\ UNCHANGED <<my_rows, my_running, my_last_received_punch_id,
                   my_last_written_punch_ids, my_control_ids, split_times, my_idx>>
    /\ UNCHANGED <<cfg_vars, lst_vars, sl_vars, ol_vars, pw_vars, hist_vars>>
    /\ UNCHANGED se_vars

\* _write_config: LAST_MODIFIED_TIME.set_value(config_section, ...)
MyWriteLmt ==
    /\ my_pc = "write_lmt"
    /\ config' = [config EXCEPT ![MySec].LastModifiedTime = my_last_modify_time]
    /\ my_pc' = "write_lrp"
    /\ UNCHANGED <<my_rows, my_running, my_last_received_punch_id,
                   my_last_modify_time, my_last_written_punch_ids,
                   my_control_ids, split_times, my_idx>>
    /\ UNCHANGED <<config_file, prev_config_sections, watch_scheduled,
                   fs_event, w_pc, new_last_received_punch_id>>
    /\ UNCHANGED <<lst_vars, sl_vars, ol_vars, pw_vars, hist_vars>>
    /\ UNCHANGED se_vars

\* _write_config: LAST_RECEIVED_PUNCH_ID.set_value(config_section, ...)
MyWriteLrp ==
    /\ my_pc = "write_lrp"
    /\ config' = [config EXCEPT
                     ![MySec].LastReceivedPunchId = my_last_received_punch_id]
    /\ my_pc' = "write_open"
    /\ UNCHANGED <<my_rows, my_running, my_last_received_punch_id,
                   my_last_modify_time, my_last_written_punch_ids,
                   my_control_ids, split_times, my_idx>>
    /\ UNCHANGED <<config_file, prev_config_sections, watch_scheduled,
                   fs_event, w_pc, new_last_received_punch_id>>
    /\ UNCHANGED <<lst_vars, sl_vars, ol_vars, pw_vars, hist_vars>>
    /\ UNCHANGED se_vars

\* Config.write: open(self.config_file_location, 'w') truncates the file
MyWriteOpen ==
    /\ my_pc = "write_open"
    /\ config_file' = TruncatedFile
    /\ fs_event' = FsNotify(fs_event, watch_scheduled)
    /\ my_pc' = "write_close"
    /\ UNCHANGED <<my_rows, my_running, my_last_received_punch_id,
                   my_last_modify_time, my_last_written_punch_ids,
                   my_control_ids, split_times, my_idx>>
    /\ UNCHANGED <<config, prev_config_sections, watch_scheduled, w_pc,
                   new_last_received_punch_id>>
    /\ UNCHANGED <<lst_vars, sl_vars, ol_vars, pw_vars, hist_vars>>
    /\ UNCHANGED se_vars

\* Config.write: self.config.write(configfile) and the close of the file;
\* the body of the for loop is done
MyWriteClose ==
    /\ my_pc = "write_close"
    /\ config_file' = FileWith(config)
    /\ fs_event' = FsNotify(fs_event, watch_scheduled)
    /\ my_written' = [id |-> my_last_received_punch_id,
                      time |-> my_last_modify_time]
    /\ my_idx' = my_idx + 1
    /\ my_pc' = "iter"
    /\ UNCHANGED <<my_rows, my_running, my_last_received_punch_id,
                   my_last_modify_time, my_last_written_punch_ids,
                   my_control_ids, split_times>>
    /\ UNCHANGED <<config, prev_config_sections, watch_scheduled, w_pc,
                   new_last_received_punch_id>>
    /\ UNCHANGED <<lst_vars, sl_vars, ol_vars, pw_vars, edits, cb0, my_iter_received,
                   fault>>
    /\ UNCHANGED se_vars

\* sleep(self.fetch_interval_seconds)
MySleep ==
    /\ my_pc = "sleep"
    /\ my_pc' = "loop"
    /\ UNCHANGED <<my_rows, my_running, my_last_received_punch_id,
                   my_last_modify_time, my_last_written_punch_ids,
                   my_control_ids, split_times, my_idx>>
    /\ UNCHANGED <<cfg_vars, lst_vars, sl_vars, ol_vars, pw_vars, hist_vars>>
    /\ UNCHANGED se_vars

\* stop
MyStop ==
    /\ my_running
    /\ my_running' = FALSE
    /\ UNCHANGED <<my_rows, my_pc, my_last_received_punch_id,
                   my_last_modify_time, my_last_written_punch_ids,
                   my_control_ids, split_times, my_idx>>
    /\ UNCHANGED <<cfg_vars, lst_vars, sl_vars, ol_vars, pw_vars, hist_vars>>
    /\ UNCHANGED se_vars

\* get_event_race_split_times raises an error that is not an
\* OperationalError: no except clause of _fetch_punches matches, the
\* exception leaves the thread's target and the thread ends.
MyQueryError ==
    /\ my_pc = "query"
    /\ my_pc' = "raised"
    /\ fault' = "other"
    /\ UNCHANGED <<my_rows, my_running, my_last_received_punch_id,
                   my_last_modify_time, my_last_written_punch_ids,
                   my_control_ids, split_times, my_idx>>
    /\ UNCHANGED <<cfg_vars, lst_vars, sl_vars, ol_vars, pw_vars, edits, my_written, cb0,
                   my_iter_received>>
    /\ UNCHANGED se_vars

\* Config.write: open(self.config_file_location, 'w') raises OSError; no
\* except clause of _fetch_punches matches and the thread ends.
MyWriteFail ==
    /\ my_pc = "write_open"
    /\ my_pc' = "raised"
    /\ fault' = "write"
    /\ UNCHANGED <<my_rows, my_running, my_last_received_punch_id,
                   my_last_modify_time, my_last_written_punch_ids,
                   my_control_ids, split_times, my_idx>>
    /\ UNCHANGED <<cfg_vars, lst_vars, sl_vars, ol_vars, pw_vars, edits, my_written, cb0,
                   my_iter_received>>
    /\ UNCHANGED se_vars

\* ------------------------------------------- Config and its observer thread
\* on_modified -> read_config: self.observer.unschedule_all()
WStart ==
    /\ w_pc = "idle"
    /\ fs_event
    /\ fs_event' = FALSE
    /\ watch_scheduled' = FALSE
    /\ w_pc' = "read"
    /\ UNCHANGED <<config, config_file, prev_config_sections,
                   new_last_received_punch_id>>
    /\ UNCHANGED <<my_vars, lst_vars, sl_vars, ol_vars, pw_vars, hist_vars, se_vars>>

\* read_config: self.config.read(self.config_file_location)
WRead ==
    /\ w_pc = "read"
    /\ config' = ConfigRead(config, config_file)
    /\ w_pc' = "compare"
    /\ UNCHANGED <<config_file, prev_config_sections, watch_scheduled,
                   fs_event, new_last_received_punch_id>>
    /\ UNCHANGED <<my_vars, lst_vars, sl_vars, ol_vars, pw_vars, hist_vars, se_vars>>

\* read_config: the sections that differ from the previous snapshot are
\* snapshotted again and their listeners notified (_notify_updates)
\* (variant: every section counts as updated at every reload)
UpdatedSections_All(mem, prev) == Sections

UpdatedSections(mem, prev) == {s \in Sections : prev[s] # mem[s]}

WCompare ==
    /\ w_pc = "compare"
    /\ prev_config_sections' =
          [s \in Sections |->
              IF s \in UpdatedSections(config, prev_config_sections)
              THEN config[s] ELSE prev_config_sections[s]]
    /\ w_pc' = IF MySec \in UpdatedSections(config, prev_config_sections)
               THEN "p_get" ELSE "schedule"
    /\ UNCHANGED <<config, config_file, watch_scheduled, fs_event,
                   new_last_received_punch_id>>
    /\ UNCHANGED <<my_vars, lst_vars, sl_vars, ol_vars, pw_vars, hist_vars, se_vars>>

\* _parse_config: new_last_received_punch_id = ...get_value(config_section)
PGet ==
    /\ w_pc = "p_get"
    /\ new_last_received_punch_id' = config[MySec].LastReceivedPunchId
    /\ cb0' = [id |-> my_last_received_punch_id, time |-> my_last_modify_time,
               written |-> my_last_written_punch_ids]
    /\ w_pc' = "p_test"
    /\ UNCHANGED <<config, config_file, prev_config_sections, watch_scheduled,
                   fs_event>>
    /\ UNCHANGED <<my_vars, lst_vars, sl_vars, ol_vars, pw_vars, edits, my_written,
                   my_iter_received, fault, se_vars>>

\* _parse_config: if self._not_in_last_written(new_last_received_punch_id)
PTest ==
    /\ w_pc = "p_test"
    /\ w_pc' = IF NotInLastWritten(new_last_received_punch_id,
                                   my_last_written_punch_ids)
               THEN "p_set_time" ELSE "p_clear"
    /\ UNCHANGED <<config, config_file, prev_config_sections, watch_scheduled,
                   fs_event, new_last_received_punch_id>>
    /\ UNCHANGED <<my_vars, lst_vars, sl_vars, ol_vars, pw_vars, hist_vars, se_vars>>

\* (variant: the watermark of the configuration is not taken over)
PSetTime_Keep ==
    /\ w_pc = "p_set_time"
    /\ w_pc' = "p_set_id"
    /\ UNCHANGED <<config, config_file, prev_config_sections, watch_scheduled,
                   fs_event, new_last_received_punch_id>>
    /\ UNCHANGED <<my_vars, lst_vars, sl_vars, ol_vars, pw_vars, hist_vars, se_vars>>

\* _parse_config: self.last_modify_time = LAST_MODIFIED_TIME.get_value(...)
PSetTime ==
    /\ w_pc = "p_set_time"
    /\ my_last_modify_time' = config[MySec].LastModifiedTime
    /\ w_pc' = "p_set_id"
    /\ UNCHANGED <<my_rows, my_pc, my_running, my_last_received_punch_id,
                   my_last_written_punch_ids, my_control_ids, split_times, my_idx>>
    /\ UNCHANGED <<config, config_file, prev_config_sections, watch_scheduled,
                   fs_event, new_last_received_punch_id>>
    /\ UNCHANGED <<lst_vars, sl_vars, ol_vars, pw_vars, hist_vars, se_vars>>

\* _parse_config: self.last_received_punch_id = new_last_received_punch_id
PSetId ==
    /\ w_pc = "p_set_id"
    /\ my_last_received_punch_id' = new_last_received_punch_id
    /\ w_pc' = "p_clear"
    /\ UNCHANGED <<my_rows, my_pc, my_running, my_last_modify_time,
                   my_last_written_punch_ids, my_control_ids, split_times, my_idx>>
    /\ UNCHANGED <<config, config_file, prev_config_sections, watch_scheduled,
                   fs_event, new_last_received_punch_id>>
    /\ UNCHANGED <<lst_vars, sl_vars, ol_vars, pw_vars, hist_vars, se_vars>>

\* (variant: the write-set is never cleared by the callback)
PClear_Never ==
    /\ w_pc = "p_clear"
    /\ w_pc' = "p_done"
    /\ UNCHANGED <<config, config_file, prev_config_sections, watch_scheduled,
                   fs_event, new_last_received_punch_id>>
    /\ UNCHANGED <<my_vars, lst_vars, sl_vars, ol_vars, pw_vars, hist_vars, se_vars>>

\* _parse_config: if self.last_received_punch_id == new_last_received_punch_id:
\*                    self._last_written_punch_ids.clear()
PClear ==
    /\ w_pc = "p_clear"
    /\ my_last_written_punch_ids' =
          IF my_last_received_punch_id = new_last_received_punch_id
          THEN <<>> ELSE my_last_written_punch_ids
    /\ w_pc' = "p_done"
    /\ UNCHANGED <<my_rows, my_pc, my_running, my_last_received_punch_id,
                   my_last_modify_time, my_control_ids, split_times, my_idx>>
    /\ UNCHANGED <<config, config_file, prev_config_sections, watch_scheduled,
                   fs_event, new_last_received_punch_id>>
    /\ UNCHANGED <<lst_vars, sl_vars, ol_vars, pw_vars, hist_vars, se_vars>>

\* _parse_config: fetch_interval_seconds and control_ids are taken from the
\* section (neither option is edited here)
PRest ==
    /\ w_pc = "p_done"
    /\ w_pc' = "schedule"
    /\ UNCHANGED <<config, config_file, prev_config_sections, watch_scheduled,
                   fs_event, new_last_received_punch_id>>
    /\ UNCHANGED <<my_vars, lst_vars, sl_vars, ol_vars, pw_vars, hist_vars, se_vars>>

\* read_config: self.observer.schedule(event_handler=self, ...)
WSchedule ==
    /\ w_pc = "schedule"
    /\ watch_scheduled' = TRUE
    /\ w_pc' = "idle"
    /\ UNCHANGED <<config, config_file, prev_config_sections, fs_event,
                   new_last_received_punch_id>>
    /\ UNCHANGED <<my_vars, lst_vars, sl_vars, ol_vars, pw_vars, hist_vars, se_vars>>

\* An operator edits the cursor options of the section in the file.
MyExternalEdit ==
    /\ edits < MaxEdits
    /\ ~config_file.empty
    /\ \E id \in 0..Len(my_rows), t \in 0..MaxTime :
          /\ [LastModifiedTime |-> t, LastReceivedPunchId |-> id]
                # config_file.sections[MySec]
          /\ config_file' = [config_file EXCEPT !.sections[MySec] =
                [LastModifiedTime |-> t, LastReceivedPunchId |-> id]]
    /\ fs_event' = FsNotify(fs_event, watch_scheduled)
    /\ edits' = edits + 1
    /\ UNCHANGED <<config, prev_config_sections, watch_scheduled, w_pc,
                   new_last_received_punch_id>>
    /\ UNCHANGED <<my_vars, lst_vars, sl_vars, ol_vars, pw_vars, my_written, cb0,
                   my_iter_received, fault, se_vars>>

\* ------------------------------------------------ the database source runs
\* No runner is known for a card: dict.get returns None.
NoRunner == [team_bib_number |-> 0, leg |-> 0]

\* The runners dict after clear(), as a function of the card number.
EmptyRunners == [c \in Cards |-> NoRunner]

\* No lookup has been made yet.
NoLookup == [card |-> "", answer |-> NoRunner, during |-> FALSE,
             old |-> NoRunner, new |-> NoRunner]

\* No lookup has been made against the database yet.
NoOlLookup == [card |-> "", answer |-> NoRunner, outcome |-> "none", matches |-> 0]

\* StartListSourceFile.__init__: empty dicts, not started
SlIdle ==
    /\ sl_file = [root |-> "StartList", teams |-> <<>>]
    /\ sl_pc = "none"
    /\ sl_running = FALSE
    /\ sl_event = FALSE
    /\ sl_data = <<>>
    /\ sl_idx = 1
    /\ team_names = "dict"
    /\ runners = EmptyRunners
    /\ sl_old = EmptyRunners
    /\ sl_lookup = NoLookup

\* StartListSourceOlaMySql.__init__: not started
OlIdle ==
    /\ ol_results = <<>>
    /\ ol_running = FALSE
    /\ ol_lookup = NoOlLookup

\* last_sound_time = None
None == -1

\* No announcement request is being processed. Beside language and sound a
\* request records the punch it came from, when it was put into the queue,
\* when it was taken out, last_sound_time at that moment and whether the
\* intro sound was played for it.
NoRequest == [id |-> 0, language |-> "None", sound |-> "", at |-> 0,
              got |-> 0, last |-> None, intro |-> FALSE]

\* PreWarning's two processing threads take no part.
\* A state file or the content of a ConfigParser: whether the file exists,
\* has the section of the source, has the option, and the text of the option.
StateFile(exists, section, option, text) ==
    [exists |-> exists, section |-> section, option |-> option, text |-> text]

NoFile == StateFile(FALSE, FALSE, FALSE, "")

\* ConfigParser(): no section
EmptyParser == StateFile(TRUE, FALSE, FALSE, "")

NoValue == [ok |-> FALSE, value |-> 0]

\* No StateSaverMixin has been constructed.
SsIdle ==
    /\ ss_config = EmptyParser
    /\ data_read = FALSE
    /\ ss_saved = NoValue

PwIdle ==
    /\ start_list_source_name = "none"
    /\ punch_queue = <<>>
    /\ announcement_queue = <<>>
    /\ pp_pc = "none"
    /\ ap_pc = "none"
    /\ ap_cur = NoRequest
    /\ last_sound_time = None
    /\ now = 0
    /\ displayed = <<>>
    /\ announced = <<>>
    /\ other_playing = FALSE
    /\ delivered = <<>>
    /\ registrations = [l \in Listeners |-> 0]
    /\ enable_intro_sound = TRUE
    /\ SsIdle

NoWrite == [id |-> 0, time |-> 0]

SeIdle ==
    /\ se_records = <<>>
    /\ se_proc = "none"
    /\ se_pc = "none"
    /\ se_running = FALSE
    /\ se_last_received_punch_id = 0
    /\ se_control_codes = {}
    /\ se_lines = <<>>
    /\ se_idx = 1
    /\ state_file = [exists |-> FALSE, value |-> 0]
    /\ se_start_cursor = 0
    /\ se_first_cursor = 0
    /\ se_run_received = <<>>
    /\ se_lrp_edited = FALSE
    /\ crashes = 0

\* Config.start has read the file, PunchSourceOlaMySql.__init__ has parsed the
\* section, the listeners are registered and start() has been called.
MyInitWith(backlogs) ==
    /\ my_rows \in backlogs
    /\ my_pc = "loop"
    /\ my_running = TRUE
    /\ my_last_received_punch_id = 0
    /\ my_last_modify_time = 0
    /\ my_last_written_punch_ids = <<>>
    /\ my_control_ids = {101}
    /\ split_times = <<>>
    /\ my_idx = 1
    /\ config = DefaultSections
    /\ config_file = FileWith(DefaultSections)
    /\ prev_config_sections = DefaultSections
    /\ watch_scheduled = TRUE
    /\ fs_event = FALSE
    /\ w_pc = "idle"
    /\ new_last_received_punch_id = 0
    /\ punch_listeners = Listeners
    /\ received = [l \in Listeners |-> <<>>]
    /\ edits = 0
    /\ my_written = NoWrite
    /\ cb0 = [id |-> 0, time |-> 0, written |-> <<>>]
    /\ my_iter_received = <<>>
    /\ fault = "none"
    /\ SeIdle
    /\ SlIdle
    /\ OlIdle
    /\ PwIdle

MyStep ==
    \/ MyLoopTest
    \/ MyQuery
    \/ MyQueryFail
    \/ MyForNext
    \/ MySetId
    \/ MyAppend
    \/ MySetTime
    \/ MyWriteLmt
    \/ MyWriteLrp
    \/ MyWriteOpen
    \/ MyWriteClose
    \/ MySleep

WStep ==
    \/ WStart
    \/ WRead
    \/ WCompare
    \/ PGet
    \/ PTest
    \/ PSetTime
    \/ PSetId
    \/ PClear
    \/ PRest
    \/ WSchedule

\* The loop is inside the advance of the cursor for one punch.
MyAdvancing ==
    my_pc \in {"set_id", "append", "set_time", "write_lmt", "write_lrp",
               "write_open", "write_close"}

\* The observer thread is inside a reload.
WReloading == w_pc # "idle"

\* Handlers run one at a time: a reload runs between two punches of the loop.
MyInit == MyInitWith(Backlogs(NumRows))

MyNext ==
    \/ MyStep /\ ~WReloading
    \/ WStep /\ ~MyAdvancing
    \/ MyExternalEdit

SpecDb == MyInit /\ [][MyNext]_vars

\* Every interleaving of the statements of the two threads.
RaceInit ==
    MyInitWith({[i \in 1..RaceRows |->
                    [controlCode |-> 101,
                     modifyDate |-> IF i < MaxTime THEN i ELSE MaxTime]]})

RaceNext ==
    \/ MyStep
    \/ WStep
    \/ MyStop

SpecDbRace == RaceInit /\ [][RaceNext]_vars

\* -------------------------------------------------- PunchSourceOlresultatSe
se_mem == <<se_pc, se_running, se_last_received_punch_id, se_control_codes,
            se_lines, se_idx>>
se_hist == <<se_start_cursor, se_first_cursor, se_run_received, se_lrp_edited,
             crashes>>

MyIdle ==
    /\ my_rows = <<>>
    /\ my_pc = "none"
    /\ my_running = FALSE
    /\ my_last_received_punch_id = 0
    /\ my_last_modify_time = 0
    /\ my_last_written_punch_ids = <<>>
    /\ my_control_ids = {}
    /\ split_times = <<>>
    /\ my_idx = 1
    /\ new_last_received_punch_id = 0
    /\ my_written = NoWrite
    /\ cb0 = [id |-> 0, time |-> 0, written |-> <<>>]
    /\ my_iter_received = <<>>

NoStateFile == [exists |-> FALSE, value |-> 0]

\* The cursor the two stores hold for the next start: that of the state file
\* if there is one, else that of the configuration file.
PersistedCursor(state, file) ==
    IF state.exists THEN state.value
    ELSE file.sections[SeSec].LastReceivedPunchId

\* The server answers with the records whose id is greater than lastId, in
\* ascending order of the id.
Getpunches(records, last_id) ==
    LET n == Len(records)
        first == IF last_id < n THEN last_id + 1 ELSE n + 1
    IN [i \in 1..(n + 1 - first) |-> first + i - 1]

\* (variant: the state file is never taken as read)
StateDataRead_Never(state) == FALSE

\* StateSaverMixin.__read_state: a state file with the section and a value
\* for the option counts as read; a missing file is created with the default.
StateDataRead(state) == state.exists

StateRead(state) == IF state.exists THEN state ELSE [exists |-> TRUE, value |-> 0]

\* Config.update_live_section_option: the option of the live section takes
\* the value; the configuration file is not written.
UpdateLiveSectionOption(mem, section, value) ==
    [mem EXCEPT ![section].LastReceivedPunchId = value]

\* Config.start, PunchSourceOlresultatSe.__init__ and start() of a new process
SeConstruct ==
    /\ se_proc = "down"
    /\ ~config_file.empty
    /\ LET mem == ConfigRead(DefaultSections, config_file)
           cursor == IF StateDataRead(state_file)
                     THEN state_file.value
                     ELSE mem[SeSec].LastReceivedPunchId
       IN /\ se_last_received_punch_id' = cursor
          /\ config' = IF StateDataRead(state_file)
                       THEN UpdateLiveSectionOption(mem, SeSec, cursor)
                       ELSE mem
          /\ prev_config_sections' = mem
          /\ se_control_codes' = mem[SeSec].ControlCodes
    /\ se_start_cursor' = PersistedCursor(state_file, config_file)
    /\ se_run_received' = <<>>
    /\ state_file' = StateRead(state_file)
    /\ se_proc' = "up"
    /\ se_running' = TRUE
    /\ se_pc' = "loop"
    /\ watch_scheduled' = TRUE
    /\ UNCHANGED <<se_records, se_lines, se_idx, se_first_cursor, se_lrp_edited,
                   crashes>>
    /\ UNCHANGED <<config_file, fs_event, w_pc, new_last_received_punch_id>>
    /\ UNCHANGED <<my_vars, lst_vars, sl_vars, ol_vars, pw_vars, hist_vars>>

\* while self._running: ... else: Config().write() comes next
SeLoopTest ==
    /\ se_proc = "up"
    /\ se_pc = "loop"
    /\ se_pc' = IF se_running THEN "fetch" ELSE "final_write"
    /\ fault' = "none"
    /\ UNCHANGED <<se_records, se_proc, se_running, se_last_received_punch_id,
                   se_control_codes, se_lines, se_idx, state_file, se_hist>>
    /\ UNCHANGED <<my_vars, cfg_vars, lst_vars, sl_vars, ol_vars, pw_vars, edits,
                   my_written, cb0, my_iter_received>>

\* urlopen with lastId = last_received_punch_id; the lines of the response
SeFetch ==
    /\ se_proc = "up"
    /\ se_pc = "fetch"
    /\ se_lines' = Getpunches(se_records, se_last_received_punch_id)
    /\ se_idx' = 1
    /\ se_pc' = IF se_lines' = <<>> THEN "sleep" ELSE "iter"
    /\ UNCHANGED <<se_records, se_proc, se_running, se_last_received_punch_id,
                   se_control_codes, state_file, se_hist>>
    /\ UNCHANGED <<my_vars, cfg_vars, lst_vars, sl_vars, ol_vars, pw_vars, hist_vars>>

\* except HTTPError / URLError
SeFetchFail ==
    /\ se_proc = "up"
    /\ se_pc = "fetch"
    /\ se_pc' = "sleep"
    /\ fault' = "transport"
    /\ UNCHANGED <<se_records, se_proc, se_running, se_last_received_punch_id,
                   se_control_codes, se_lines, se_idx, state_file, se_hist>>
    /\ UNCHANGED <<my_vars, cfg_vars, lst_vars, sl_vars, ol_vars, pw_vars, edits,
                   my_written, cb0, my_iter_received>>

\* (variant: every line is handed to the listeners, whatever its control)
SeLine_NoFilter ==
    /\ se_proc = "up"
    /\ se_pc = "iter"
    /\ LET id == se_lines[se_idx]
       IN /\ IF TRUE
             THEN /\ CanReceive
                  /\ received' = NotifyPunchListeners(received, punch_listeners, id)
                  /\ se_run_received' = Append(se_run_received, id)
             ELSE UNCHANGED <<received, se_run_received>>
          /\ se_last_received_punch_id' = id
    /\ se_idx' = se_idx + 1
    /\ se_pc' = IF se_idx = Len(se_lines) THEN "save_value" ELSE "iter"
    /\ UNCHANGED <<se_records, se_proc, se_running, se_control_codes, se_lines,
                   state_file, se_start_cursor, se_first_cursor, se_lrp_edited,
                   crashes>>
    /\ UNCHANGED <<my_vars, cfg_vars, punch_listeners, sl_vars, ol_vars, pw_vars, hist_vars>>

\* for line in splitlines: notify if the control code is selected, then
\* self.last_received_punch_id = int(punch_dict['id'])
SeLine ==
    /\ se_proc = "up"
    /\ se_pc = "iter"
    /\ LET id == se_lines[se_idx]
       IN /\ IF se_records[id] \in se_control_codes
             THEN /\ CanReceive
                  /\ received' = NotifyPunchListeners(received, punch_listeners, id)
                  /\ se_run_received' = Append(se_run_received, id)
             ELSE UNCHANGED <<received, se_run_received>>
          /\ se_last_received_punch_id' = id
    /\ se_idx' = se_idx + 1
    /\ se_pc' = IF se_idx = Len(se_lines) THEN "save_value" ELSE "iter"
    /\ UNCHANGED <<se_records, se_proc, se_running, se_control_codes, se_lines,
                   state_file, se_start_cursor, se_first_cursor, se_lrp_edited,
                   crashes>>
    /\ UNCHANGED <<my_vars, cfg_vars, punch_listeners, sl_vars, ol_vars, pw_vars, hist_vars>>

\* _save_state: self._save_value(LAST_RECEIVED_PUNCH_ID, ...)
SeSaveValue ==
    /\ se_proc = "up"
    /\ se_pc = "save_value"
    /\ state_file' = [exists |-> TRUE, value |-> se_last_received_punch_id]
    /\ se_pc' = "update_live"
    /\ UNCHANGED <<se_records, se_proc, se_running, se_last_received_punch_id,
                   se_control_codes, se_lines, se_idx, se_hist>>
    /\ UNCHANGED <<my_vars, cfg_vars, lst_vars, sl_vars, ol_vars, pw_vars, hist_vars>>

\* _save_state: Config().update_live_section_option(...)
SeUpdateLive ==
    /\ se_proc = "up"
    /\ se_pc = "update_live"
    /\ config' = UpdateLiveSectionOption(config, SeSec, se_last_received_punch_id)
    /\ se_pc' = "sleep"
    /\ UNCHANGED <<se_records, se_proc, se_running, se_last_received_punch_id,
                   se_control_codes, se_lines, se_idx, state_file, se_hist>>
    /\ UNCHANGED <<config_file, prev_config_sections, watch_scheduled, fs_event,
                   w_pc, new_last_received_punch_id>>
    /\ UNCHANGED <<my_vars, lst_vars, sl_vars, ol_vars, pw_vars, hist_vars>>

\* sleep(self.fetch_interval_seconds)
SeSleep ==
    /\ se_proc = "up"
    /\ se_pc = "sleep"
    /\ se_pc' = "loop"
    /\ UNCHANGED <<se_records, se_proc, se_running, se_last_received_punch_id,
                   se_control_codes, se_lines, se_idx, state_file, se_hist>>
    /\ UNCHANGED <<my_vars, cfg_vars, lst_vars, sl_vars, ol_vars, pw_vars, hist_vars>>

\* stop
SeStop ==
    /\ se_proc = "up"
    /\ se_running
    /\ se_running' = FALSE
    /\ UNCHANGED <<se_records, se_proc, se_pc, se_last_received_punch_id,
                   se_control_codes, se_lines, se_idx, state_file, se_hist>>
    /\ UNCHANGED <<my_vars, cfg_vars, lst_vars, sl_vars, ol_vars, pw_vars, hist_vars>>

\* after the loop: Config().write()
SeFinalWrite ==
    /\ se_proc = "up"
    /\ se_pc = "final_write"
    /\ config_file' = FileWith(config)
    /\ fs_event' = FsNotify(fs_event, watch_scheduled)
    /\ se_pc' = "cleanup"
    /\ UNCHANGED <<se_records, se_proc, se_running, se_last_received_punch_id,
                   se_control_codes, se_lines, se_idx, state_file, se_hist>>
    /\ UNCHANGED <<config, prev_config_sections, watch_scheduled, w_pc,
                   new_last_received_punch_id>>
    /\ UNCHANGED <<my_vars, lst_vars, sl_vars, ol_vars, pw_vars, hist_vars>>

\* after the loop: self._cleanup() unlinks the state file
SeCleanup ==
    /\ se_proc = "up"
    /\ se_pc = "cleanup"
    /\ state_file' = NoStateFile
    /\ se_pc' = "stopped"
    /\ UNCHANGED <<se_records, se_proc, se_running, se_last_received_punch_id,
                   se_control_codes, se_lines, se_idx, se_hist>>
    /\ UNCHANGED <<my_vars, cfg_vars, lst_vars, sl_vars, ol_vars, pw_vars, hist_vars>>

\* The memory of a process that has ended.
SeDown ==
    /\ se_proc' = "down"
    /\ se_pc' = "none"
    /\ se_running' = FALSE
    /\ se_last_received_punch_id' = 0
    /\ se_control_codes' = {}
    /\ se_lines' = <<>>
    /\ se_idx' = 1
    /\ config' = DefaultSections
    /\ prev_config_sections' = DefaultSections
    /\ watch_scheduled' = FALSE
    /\ fs_event' = FALSE

\* The process ends after the source has stopped.
SeExit ==
    /\ se_proc = "up"
    /\ se_pc = "stopped"
    /\ SeDown
    /\ UNCHANGED <<se_records, state_file, se_hist>>
    /\ UNCHANGED <<config_file, w_pc, new_last_received_punch_id>>
    /\ UNCHANGED <<my_vars, lst_vars, sl_vars, ol_vars, pw_vars, hist_vars>>

\* The process is killed: its memory is lost, the files stay as they are.
SeCrash ==
    /\ se_proc = "up"
    /\ se_pc # "stopped"
    /\ crashes < MaxCrashes
    /\ crashes' = crashes + 1
    /\ SeDown
    /\ UNCHANGED <<se_records, state_file, se_start_cursor, se_first_cursor,
                   se_run_received, se_lrp_edited>>
    /\ UNCHANGED <<config_file, w_pc, new_last_received_punch_id>>
    /\ UNCHANGED <<my_vars, lst_vars, sl_vars, ol_vars, pw_vars, hist_vars>>

\* on_modified -> read_config -> _notify_updates -> config_updated ->
\* PunchSourceOlresultatSe._parse_config, as one step of the observer thread
SeReload ==
    /\ se_proc = "up"
    /\ fs_event
    /\ fs_event' = FALSE
    /\ LET mem == ConfigRead(config, config_file)
       IN /\ config' = mem
          /\ prev_config_sections' =
                [s \in Sections |->
                    IF s \in UpdatedSections(mem, prev_config_sections)
                    THEN mem[s] ELSE prev_config_sections[s]]
          /\ IF SeSec \in UpdatedSections(mem, prev_config_sections)
             THEN /\ se_last_received_punch_id' = mem[SeSec].LastReceivedPunchId
                  /\ se_control_codes' = mem[SeSec].ControlCodes
             ELSE UNCHANGED <<se_last_received_punch_id, se_control_codes>>
    /\ UNCHANGED <<se_records, se_proc, se_pc, se_running, se_lines, se_idx,
                   state_file, se_hist>>
    /\ UNCHANGED <<config_file, watch_scheduled, w_pc, new_last_received_punch_id>>
    /\ UNCHANGED <<my_vars, lst_vars, sl_vars, ol_vars, pw_vars, hist_vars>>

\* An operator edits the ControlCodes option of the section in the file.
SeEditControlCodes ==
    /\ se_proc = "up"
    /\ edits < MaxEdits
    /\ \E codes \in (SUBSET Codes) \ {{}, config_file.sections[SeSec].ControlCodes} :
          config_file' = [config_file EXCEPT !.sections[SeSec].ControlCodes = codes]
    /\ fs_event' = FsNotify(fs_event, watch_scheduled)
    /\ edits' = edits + 1
    /\ UNCHANGED <<config, prev_config_sections, watch_scheduled, w_pc,
                   new_last_received_punch_id>>
    /\ UNCHANGED <<my_vars, lst_vars, sl_vars, ol_vars, pw_vars, my_written, cb0,
                   my_iter_received, fault, se_vars>>

\* An operator edits the LastReceivedPunchId option of the section in the file.
SeEditLastReceivedPunchId ==
    /\ se_proc = "up"
    /\ edits < MaxEdits
    /\ \E id \in (0..NumRecords) \ {config_file.sections[SeSec].LastReceivedPunchId} :
          config_file' = [config_file EXCEPT
                             !.sections[SeSec].LastReceivedPunchId = id]
    /\ fs_event' = FsNotify(fs_event, watch_scheduled)
    /\ edits' = edits + 1
    /\ se_lrp_edited' = TRUE
    /\ UNCHANGED <<config, prev_config_sections, watch_scheduled, w_pc,
                   new_last_received_punch_id>>
    /\ UNCHANGED <<se_records, se_proc, se_mem, state_file, se_start_cursor,
                   se_first_cursor, se_run_received, crashes>>
    /\ UNCHANGED <<my_vars, lst_vars, sl_vars, ol_vars, pw_vars, my_written, cb0,
                   my_iter_received, fault>>

\* An operator saves the configuration file with the options of the section
\* as they are in the file (an edit of another section of the file).
SeTouchConfig ==
    /\ se_proc = "up"
    /\ edits < MaxEdits
    /\ ~config_file.empty
    /\ fs_event' = FsNotify(fs_event, watch_scheduled)
    /\ edits' = edits + 1
    /\ UNCHANGED <<config, config_file, prev_config_sections, watch_scheduled,
                   w_pc, new_last_received_punch_id>>
    /\ UNCHANGED <<my_vars, lst_vars, sl_vars, ol_vars, pw_vars, my_written, cb0,
                   my_iter_received, fault, se_vars>>

\* The response starts with a line that has no ';': punch_dict has no
\* 'controlCode', the KeyError matches no except clause and the thread ends.
SeFetchMalformed ==
    /\ se_proc = "up"
    /\ se_pc = "fetch"
    /\ se_pc' = "raised"
    /\ fault' = "other"
    /\ UNCHANGED <<se_records, se_proc, se_running, se_last_received_punch_id,
                   se_control_codes, se_lines, se_idx, state_file, se_hist>>
    /\ UNCHANGED <<my_vars, cfg_vars, lst_vars, sl_vars, ol_vars, pw_vars, edits,
                   my_written, cb0, my_iter_received>>

\* _save_value: open(self.state_file_location, 'w') raises OSError; no except
\* clause of _fetch_punches matches and the thread ends.
SeSaveFail ==
    /\ se_proc = "up"
    /\ se_pc = "save_value"
    /\ se_pc' = "raised"
    /\ fault' = "write"
    /\ UNCHANGED <<se_records, se_proc, se_running, se_last_received_punch_id,
                   se_control_codes, se_lines, se_idx, state_file, se_hist>>
    /\ UNCHANGED <<my_vars, cfg_vars, lst_vars, sl_vars, ol_vars, pw_vars, edits,
                   my_written, cb0, my_iter_received>>

\* The answer of the server overlaps the window boundary: its first line is
\* the record whose id is the lastId of the request, the newer ones follow.
SeFetchOverlap ==
    /\ se_proc = "up"
    /\ se_pc = "fetch"
    /\ se_last_received_punch_id \in 1..Len(se_records)
    /\ se_lines' = <<se_last_received_punch_id>> \o
                       Getpunches(se_records, se_last_received_punch_id)
    /\ se_idx' = 1
    /\ se_pc' = "iter"
    /\ UNCHANGED <<se_records, se_proc, se_running, se_last_received_punch_id,
                   se_control_codes, state_file, se_hist>>
    /\ UNCHANGED <<my_vars, cfg_vars, lst_vars, sl_vars, ol_vars, pw_vars, hist_vars>>

\* The process is not running; the configuration file holds the cursor of an
\* earlier run and a state file may be left from a run that was killed.
SeInit ==
    /\ se_records \in [1..NumRecords -> Codes]
    /\ \E id \in 0..NumRecords :
          config_file = FileWith([DefaultSections EXCEPT
                                     ![SeSec].LastReceivedPunchId = id])
    /\ state_file \in {NoStateFile} \cup
                      {[exists |-> TRUE, value |-> v] : v \in 0..NumRecords}
    /\ se_first_cursor = PersistedCursor(state_file, config_file)
    /\ se_start_cursor = 0
    /\ se_run_received = <<>>
    /\ se_lrp_edited = FALSE
    /\ crashes = 0
    /\ se_proc = "down"
    /\ se_pc = "none"
    /\ se_running = FALSE
    /\ se_last_received_punch_id = 0
    /\ se_control_codes = {}
    /\ se_lines = <<>>
    /\ se_idx = 1
    /\ config = DefaultSections
    /\ prev_config_sections = DefaultSections
    /\ watch_scheduled = FALSE
    /\ fs_event = FALSE
    /\ w_pc = "idle"
    /\ punch_listeners = Listeners
    /\ received = [l \in Listeners |-> <<>>]
    /\ edits = 0
    /\ fault = "none"
    /\ MyIdle
    /\ SlIdle
    /\ OlIdle
    /\ PwIdle

SeNext ==
    \/ SeConstruct
    \/ SeLoopTest
    \/ SeFetch
    \/ SeFetchFail
    \/ SeLine
    \/ SeSaveValue
    \/ SeUpdateLive
    \/ SeSleep
    \/ SeStop
    \/ SeFinalWrite
    \/ SeCleanup
    \/ SeExit
    \/ SeCrash
    \/ SeReload
    \/ SeEditControlCodes
    \/ SeEditLastReceivedPunchId
    \/ SeTouchConfig

SpecUrl == SeInit /\ [][SeNext]_vars

\* ------------------------------------------ either source, with its failures
MyFaults ==
    \/ MyQueryError
    \/ MyWriteFail

SeFaults ==
    \/ SeFetchMalformed
    \/ SeSaveFail
    \/ SeFetchOverlap

\* One of the two punch sources is configured and runs.
PollInit == MyInit \/ SeInit

PollNext ==
    \/ my_pc # "none" /\ (MyNext \/ (MyFaults /\ ~WReloading))
    \/ my_pc = "none" /\ (SeNext \/ SeFaults)

SpecPoll == PollInit /\ [][PollNext]_vars

\* ------------------------------------------------------ StartListSourceFile
\* No punch source and no configuration reload take part.
PunchIdle ==
    /\ MyIdle
    /\ SeIdle
    /\ config = DefaultSections
    /\ config_file = FileWith(DefaultSections)
    /\ prev_config_sections = DefaultSections
    /\ watch_scheduled = FALSE
    /\ fs_event = FALSE
    /\ w_pc = "idle"
    /\ punch_listeners = Listeners
    /\ received = [l \in Listeners |-> <<>>]
    /\ edits = 0
    /\ fault = "none"

punch_vars == <<my_vars, cfg_vars, lst_vars, hist_vars, se_vars>>

\* A TeamStart of the file with its one TeamMemberStart; "" stands for a
\* member without ControlCard.
TeamStarts == [bib : Bibs, card : Cards \cup {""}, leg : Legs]

\* The well-formed start list files: the root element is the IOF v3
\* StartList, teams are its ClassStart/TeamStart elements.
StartListFiles ==
    [root : {"StartList"}, teams : UNION {[1..n -> TeamStarts] : n \in 0..NumTeams}]

\* A file that ElementTree.fromstring does not parse ("" stands for no root
\* element) and a well-formed document with another root element.
MalformedFiles == [root : {"", "ResultList"}, teams : {<<>>}]

\* The runners dict a complete pass over the teams builds: a later member
\* with the same ControlCard replaces an earlier one.
RECURSIVE RunnersOf(_)
RunnersOf(teams) ==
    IF teams = <<>>
    THEN EmptyRunners
    ELSE LET t == teams[Len(teams)]
             before == RunnersOf(SubSeq(teams, 1, Len(teams) - 1))
         IN IF t.card = ""
            THEN before
            ELSE [before EXCEPT ![t.card] =
                     [team_bib_number |-> t.bib, leg |-> t.leg]]

\* start(): self._running = True; update() parses the configuration and
\* begins the first read of the file
SlStart ==
    /\ sl_pc = "idle"
    /\ ~sl_running
    /\ sl_running' = TRUE
    /\ sl_event' = FALSE
    /\ sl_pc' = "read"
    /\ UNCHANGED <<sl_file, sl_data, sl_idx, team_names, runners, sl_old,
                   sl_lookup>>
    /\ UNCHANGED <<punch_vars, ol_vars, pw_vars>>

\* on_modified for the start list file: _read_start_list()
SlOnModified ==
    /\ sl_pc = "idle"
    /\ sl_running
    /\ sl_event
    /\ sl_event' = FALSE
    /\ sl_pc' = "read"
    /\ UNCHANGED <<sl_file, sl_running, sl_data, sl_idx, team_names, runners,
                   sl_old, sl_lookup>>
    /\ UNCHANGED <<punch_vars, ol_vars, pw_vars>>

\* config_updated: update() parses the configuration and reads the file
SlConfigUpdated ==
    /\ sl_pc = "idle"
    /\ sl_running
    /\ sl_pc' = "read"
    /\ UNCHANGED <<sl_file, sl_running, sl_event, sl_data, sl_idx, team_names,
                   runners, sl_old, sl_lookup>>
    /\ UNCHANGED <<punch_vars, ol_vars, pw_vars>>

\* (variant: the dicts are cleared before the document is parsed and checked)
SlReadFile_ClearFirst ==
    /\ sl_pc = "read"
    /\ IF sl_file.root # "StartList"
       THEN /\ sl_pc' = "raised"
            /\ runners' = EmptyRunners
            /\ UNCHANGED <<sl_data, sl_old>>
       ELSE /\ sl_data' = sl_file.teams
            /\ sl_old' = runners
            /\ sl_pc' = "clear"
            /\ UNCHANGED runners
    /\ UNCHANGED <<sl_file, sl_running, sl_event, sl_idx, team_names, sl_lookup>>
    /\ UNCHANGED <<punch_vars, ol_vars, pw_vars>>

\* _read_start_list: the file is read and parsed; ElementTree.fromstring
\* raises ParseError, another root tag raises ValueError, both before any
\* dict is touched
SlReadFile ==
    /\ sl_pc = "read"
    /\ IF sl_file.root # "StartList"
       THEN /\ sl_pc' = "raised"
            /\ UNCHANGED <<sl_data, sl_old>>
       ELSE /\ sl_data' = sl_file.teams
            /\ sl_old' = runners
            /\ sl_pc' = "clear"
    /\ UNCHANGED <<sl_file, sl_running, sl_event, sl_idx, team_names, runners,
                   sl_lookup>>
    /\ UNCHANGED <<punch_vars, ol_vars, pw_vars>>

\* _read_start_list: team_names.clear(); teams.clear(); runners.clear()
SlClear ==
    /\ sl_pc = "clear"
    /\ runners' = EmptyRunners
    /\ sl_idx' = 1
    /\ sl_pc' = "team"
    /\ UNCHANGED <<sl_file, sl_running, sl_event, sl_data, team_names, sl_old,
                   sl_lookup>>
    /\ UNCHANGED <<punch_vars, ol_vars, pw_vars>>

\* _read_start_list, for xml_team in xml_teams: self.team_names[bib] = name
\* raises TypeError when team_names is the list an earlier read left; else
\* the member with a ControlCard is put into self.runners
SlTeam ==
    /\ sl_pc = "team"
    /\ IF sl_idx > Len(sl_data)
       THEN /\ sl_pc' = "sort"
            /\ UNCHANGED <<runners, sl_idx>>
       ELSE IF team_names = "list"
       THEN /\ sl_pc' = "raised"
            /\ UNCHANGED <<runners, sl_idx>>
       ELSE /\ runners' =
                  IF sl_data[sl_idx].card = ""
                  THEN runners
                  ELSE [runners EXCEPT ![sl_data[sl_idx].card] =
                           [team_bib_number |-> sl_data[sl_idx].bib,
                            leg |-> sl_data[sl_idx].leg]]
            /\ sl_idx' = sl_idx + 1
            /\ UNCHANGED sl_pc
    /\ UNCHANGED <<sl_file, sl_running, sl_event, sl_data, team_names, sl_old,
                   sl_lookup>>
    /\ UNCHANGED <<punch_vars, ol_vars, pw_vars>>

\* _read_start_list: self.team_names = natsorted(self.team_names.items());
\* self.teams = natsorted(self.teams.items()); the read is complete. The list
\* an earlier read left has no items(): AttributeError.
SlSort ==
    /\ sl_pc = "sort"
    /\ IF team_names = "list"
       THEN /\ sl_pc' = "raised"
            /\ UNCHANGED team_names
       ELSE /\ team_names' = "list"
            /\ sl_pc' = "idle"
    /\ UNCHANGED <<sl_file, sl_running, sl_event, sl_data, sl_idx, runners,
                   sl_old, sl_lookup>>
    /\ UNCHANGED <<punch_vars, ol_vars, pw_vars>>

\* The exception leaves _read_start_list and the handler that called it.
SlRaised ==
    /\ sl_pc = "raised"
    /\ sl_pc' = "idle"
    /\ UNCHANGED <<sl_file, sl_running, sl_event, sl_data, sl_idx, team_names,
                   runners, sl_old, sl_lookup>>
    /\ UNCHANGED <<punch_vars, ol_vars, pw_vars>>

\* The start list file is replaced by another file, well-formed or not.
SlFileEdit ==
    /\ sl_pc # "none"
    /\ edits < MaxEdits
    /\ edits' = edits + 1
    /\ \E f \in (StartListFiles \cup MalformedFiles) \ {sl_file} : sl_file' = f
    /\ sl_event' = (sl_event \/ sl_running)
    /\ UNCHANGED <<sl_pc, sl_running, sl_data, sl_idx, team_names, runners,
                   sl_old, sl_lookup>>
    /\ UNCHANGED <<my_vars, cfg_vars, lst_vars, se_vars, ol_vars, pw_vars>>
    /\ UNCHANGED <<received, fault, my_written, cb0, my_iter_received>>

\* lookup_from_card_number: self.runners.get(card_number)
StartListFileLookup(rn, card) == rn[card]

\* lookup_from_card_number, called by the thread that processes the punches
SlLookup ==
    /\ sl_pc # "none"
    /\ \E card \in Cards :
          sl_lookup' = [card |-> card,
                        answer |-> StartListFileLookup(runners, card),
                        during |-> sl_pc \in {"clear", "team", "sort"},
                        old |-> sl_old[card],
                        new |-> RunnersOf(sl_data)[card]]
    /\ UNCHANGED <<sl_file, sl_pc, sl_running, sl_event, sl_data, sl_idx,
                   team_names, runners, sl_old>>
    /\ UNCHANGED <<punch_vars, ol_vars, pw_vars>>

SlInit ==
    /\ sl_file \in StartListFiles \cup MalformedFiles
    /\ sl_pc = "idle"
    /\ sl_running = FALSE
    /\ sl_event = FALSE
    /\ sl_data = <<>>
    /\ sl_idx = 1
    /\ team_names = "dict"
    /\ runners = EmptyRunners
    /\ sl_old = EmptyRunners
    /\ sl_lookup = NoLookup
    /\ PunchIdle
    /\ OlIdle
    /\ PwIdle

SlNext ==
    \/ SlStart
    \/ SlOnModified
    \/ SlConfigUpdated
    \/ SlReadFile
    \/ SlClear
    \/ SlTeam
    \/ SlSort
    \/ SlRaised
    \/ SlFileEdit
    \/ SlLookup

SpecRosterFile == SlInit /\ [][SlNext]_vars

\* -------------------------------------------------- StartListSourceOlaMySql
\* The rows of Results joined with the card number, relay leg and bib number.
ResultRows == [cardNumber : Cards, bibNumber : Bibs, relayLeg : Legs]

ResultTables == UNION {[1..n -> ResultRows] : n \in 0..NumResults}

\* (variant: of several matching rows the first one is returned)
get_event_race_pre_warning_data_First(results, card_number) ==
    LET found == SelectSeq(results, LAMBDA r : r.cardNumber = card_number)
    IN IF Len(found) = 0
       THEN NoRunner
       ELSE [team_bib_number |-> found[1].bibNumber, leg |-> found[1].relayLeg]

\* OlaMySql.get_event_race_pre_warning_data: fetchall() of the rows with the
\* card number; None for no row and for more than one row
get_event_race_pre_warning_data(results, card_number) ==
    LET found == SelectSeq(results, LAMBDA r : r.cardNumber = card_number)
    IN IF Len(found) = 0
       THEN NoRunner
       ELSE IF Len(found) = 1
       THEN [team_bib_number |-> found[1].bibNumber, leg |-> found[1].relayLeg]
       ELSE NoRunner

\* start(): self._running = True
OlStart ==
    /\ ~ol_running
    /\ ol_running' = TRUE
    /\ UNCHANGED <<ol_results, ol_lookup>>
    /\ UNCHANGED <<punch_vars, sl_vars, pw_vars>>

\* stop(): self._running = False
OlStop ==
    /\ ol_running
    /\ ol_running' = FALSE
    /\ UNCHANGED <<ol_results, ol_lookup>>
    /\ UNCHANGED <<punch_vars, sl_vars, pw_vars>>

\* lookup_from_card_number: None without a query when not started, else the
\* answer of get_event_race_pre_warning_data
OlLookup ==
    /\ \E card \in Cards :
          ol_lookup' =
              IF ~ol_running
              THEN [card |-> card, answer |-> NoRunner,
                    outcome |-> "not_started", matches |-> 0]
              ELSE [card |-> card,
                    answer |-> get_event_race_pre_warning_data(ol_results, card),
                    outcome |-> "rows",
                    matches |-> Len(SelectSeq(ol_results,
                                    LAMBDA r : r.cardNumber = card))]
    /\ UNCHANGED <<ol_results, ol_running>>
    /\ UNCHANGED <<punch_vars, sl_vars, pw_vars>>

\* lookup_from_card_number: except OperationalError: return None
OlLookupFail ==
    /\ ol_running
    /\ \E card \in Cards :
          ol_lookup' = [card |-> card, answer |-> NoRunner,
                        outcome |-> "error", matches |-> 0]
    /\ UNCHANGED <<ol_results, ol_running>>
    /\ UNCHANGED <<punch_vars, sl_vars, pw_vars>>

\* A row is added to, changed in or removed from the Results table.
OlTableEdit ==
    /\ \E t \in ResultTables \ {ol_results} : ol_results' = t
    /\ UNCHANGED <<ol_running, ol_lookup>>
    /\ UNCHANGED <<punch_vars, sl_vars, pw_vars>>

OlInit ==
    /\ ol_results \in ResultTables
    /\ ol_running = FALSE
    /\ ol_lookup = NoOlLookup
    /\ PunchIdle
    /\ SlIdle
    /\ PwIdle

OlNext ==
    \/ OlStart
    \/ OlStop
    \/ OlLookup
    \/ OlLookupFail
    \/ OlTableEdit

SpecRosterDb == OlInit /\ [][OlNext]_vars

\* ---------------------------------------------- PreWarning: the two stages
\* A punch is the dict the source hands to punch_received: keys holds the
\* keys the dict has. passedTime is the text split at its blanks (<<>> for
\* None), bibNumber and relayLeg are 0 for None.
Punch(keys, card, time, bib, leg) ==
    [id |-> 0, keys |-> keys, cardNumber |-> card, passedTime |-> time,
     bibNumber |-> bib, relayLeg |-> leg]

\* PunchSourceOlresultatSe: dict(zip(('id', 'controlCode', 'cardNumber',
\* 'passedTime'), line.split(';'))) of a line with two, three or four fields
UrlPunches ==
    {Punch({}, "", <<>>, 0, 0)}
    \cup {Punch({"cardNumber"}, c, <<>>, 0, 0) : c \in Cards}
    \cup {Punch({"cardNumber", "passedTime"}, c, <<"10:15:30">>, 0, 0) :
              c \in Cards}

\* PunchSourceOlaMySql: a row of get_event_race_split_times, with the
\* bibNumber and relayLeg of the joined Results row or NULL
DbPunches ==
    {Punch({"cardNumber", "passedTime", "bibNumber", "relayLeg"}, c,
           <<"2024-05-01", "10:15:31">>, b, IF b = 0 THEN 0 ELSE 1) :
        c \in Cards, b \in {0, 2}}

Punches == UrlPunches \cup DbPunches

\* (variant: a listener registered again is taken out)
register_punch_listener_Toggle(listeners, listener) ==
    IF listener \in listeners
    THEN listeners \ {listener}
    ELSE listeners \cup {listener}

\* register_punch_listener: self.punch_listeners.add(listener)
register_punch_listener(listeners, listener) == listeners \cup {listener}

RegisterPunchListener ==
    /\ pp_pc # "none"
    /\ \E l \in Listeners :
          /\ registrations[l] < MaxRegistrations
          /\ registrations' = [registrations EXCEPT ![l] = @ + 1]
          /\ punch_listeners' = register_punch_listener(punch_listeners, l)
    /\ UNCHANGED <<enable_intro_sound, ss_config, data_read, ss_saved>>
    /\ UNCHANGED <<start_list_source_name, punch_queue, announcement_queue,
                   pp_pc, ap_pc, ap_cur, last_sound_time, now, displayed,
                   announced, other_playing, delivered>>
    /\ UNCHANGED <<my_vars, cfg_vars, received, hist_vars, se_vars, sl_vars,
                   ol_vars>>

\* _notify_punch_listeners: for listener in self.punch_listeners:
\* listener.punch_received(punch); PreWarning.punch_received puts the punch
\* into the punch queue
PunchReceived ==
    /\ pp_pc # "none"
    /\ Len(delivered) < MaxPunches
    /\ \E p \in Punches :
          LET punch == [p EXCEPT !.id = Len(delivered) + 1]
          IN /\ delivered' = Append(delivered,
                                    [punch |-> punch, regs |-> registrations])
             /\ received' = NotifyPunchListeners(received, punch_listeners,
                                                 punch.id)
             /\ punch_queue' = IF "app" \in punch_listeners
                               THEN Append(punch_queue, punch)
                               ELSE punch_queue
    /\ UNCHANGED <<enable_intro_sound, ss_config, data_read, ss_saved>>
    /\ UNCHANGED <<start_list_source_name, announcement_queue, pp_pc, ap_pc,
                   ap_cur, last_sound_time, now, displayed, announced,
                   other_playing, registrations>>
    /\ UNCHANGED <<my_vars, cfg_vars, punch_listeners, hist_vars, se_vars,
                   sl_vars, ol_vars>>

\* _to_str of a number, and of passedTime followed by rpartition(' ')[2]
to_str(val) == IF val = 0 THEN "-" ELSE ToString(val)

to_str_rpartition(words) ==
    IF words = <<>> THEN "-" ELSE words[Len(words)]

\* self.start_list_source.lookup_from_card_number of the active roster
lookup_from_card_number(name, rn, running, results, card) ==
    IF name = FileName
    THEN StartListFileLookup(rn, card)
    ELSE IF ~running
    THEN NoRunner
    ELSE get_event_race_pre_warning_data(results, card)

\* (variant: the roster is asked for every punch)
SkipsLookup_Never(punch, name) == FALSE

\* _process_punches: a punch with bibNumber is not looked up when the
\* configured roster source is StartListSourceOlaMySql
SkipsLookup(punch, name) == "bibNumber" \in punch.keys /\ name = OlaName

\* (variant: a punch that is not found is skipped, whatever it carries)
NotFound_Drop(punch) == "continue"

\* (variant: a punch without bibNumber that is not found is shown with "-")
NotFound_Keep(punch) == "use"

\* _process_punches, pre_warn_data is None: a punch with bibNumber keeps its
\* data, a punch without is skipped (continue)
NotFound(punch) == IF "bibNumber" \in punch.keys THEN "use" ELSE "continue"

\* (variant: the announcement is keyed by the relay leg)
SoundOf_Leg(bib_number, relay_leg) == relay_leg

\* _process_punches: {'language': language, 'sound': bib_number}
SoundOf(bib_number, relay_leg) == bib_number

\* One pass of the loop of _process_punches on a dequeued punch: "raise" for
\* the KeyError of a missing key, "continue" for a skipped punch, "row" with
\* the punch after punch.update(pre_warn_data)
process_punch(punch, name, rn, running, results) ==
    IF "cardNumber" \notin punch.keys
    THEN [outcome |-> "raise", punch |-> punch, looked_up |-> FALSE]
    ELSE LET skip == SkipsLookup(punch, name)
             data == lookup_from_card_number(name, rn, running, results,
                                             punch.cardNumber)
             updated ==
                 IF skip \/ data = NoRunner
                 THEN punch
                 ELSE [punch EXCEPT !.keys = @ \cup {"bibNumber", "relayLeg"},
                                    !.bibNumber = data.team_bib_number,
                                    !.relayLeg = data.leg]
         IN IF ~skip /\ data = NoRunner /\ NotFound(punch) = "continue"
            THEN [outcome |-> "continue", punch |-> punch, looked_up |-> TRUE]
            ELSE IF {"passedTime", "bibNumber", "relayLeg"} \subseteq updated.keys
            THEN [outcome |-> "row", punch |-> updated, looked_up |-> ~skip]
            ELSE [outcome |-> "raise", punch |-> updated, looked_up |-> ~skip]

\* (variant: the newest punch of the queue is taken first)
QueueGet_Newest(queue) == [item |-> queue[Len(queue)],
                           rest |-> SubSeq(queue, 1, Len(queue) - 1)]

\* Queue.get: the oldest entry
QueueGet(queue) == [item |-> Head(queue), rest |-> Tail(queue)]

\* _process_punches: punch_queue.get(), the lookup, _add_pre_warning and
\* announcement_queue.put
ProcessPunch ==
    /\ pp_pc = "get"
    /\ punch_queue # <<>>
    /\ LET got == QueueGet(punch_queue)
           res == process_punch(got.item, start_list_source_name, runners,
                                ol_running, ol_results)
           bib_number == to_str(res.punch.bibNumber)
           relay_leg == to_str(res.punch.relayLeg)
       IN /\ punch_queue' = got.rest
          /\ pp_pc' = IF res.outcome = "raise" THEN "raised" ELSE "get"
          /\ IF res.outcome = "row"
             THEN /\ displayed' = Append(displayed,
                       [time |-> to_str_rpartition(res.punch.passedTime),
                        team |-> bib_number, leg |-> relay_leg,
                        id |-> got.item.id, looked_up |-> res.looked_up])
                  /\ announcement_queue' = Append(announcement_queue,
                       [id |-> got.item.id, language |-> "None",
                        sound |-> SoundOf(bib_number, relay_leg),
                        at |-> now, got |-> 0, last |-> None,
                        intro |-> FALSE])
             ELSE UNCHANGED <<displayed, announcement_queue>>
    /\ UNCHANGED <<enable_intro_sound, ss_config, data_read, ss_saved>>
    /\ UNCHANGED <<start_list_source_name, ap_pc, ap_cur, last_sound_time,
                   now, announced, other_playing, delivered, registrations>>
    /\ UNCHANGED <<punch_vars, sl_vars, ol_vars>>

\* (variant: the intro sound is played before every announcement)
PlaysIntro_Always(last, t) == TRUE

\* _process_announcements: last_sound_time is None or (datetime.now() -
\* last_sound_time).total_seconds() >= the trigger timeout
PlaysIntro(last, t) ==
    last = None \/ t - last >= IntroSoundTriggerTimeoutSeconds

\* _process_announcements: announcement_queue.get() and the test for the
\* intro sound; play_sound or play_lang is entered
ApGet ==
    /\ ap_pc = "get"
    /\ announcement_queue # <<>>
    /\ LET got == QueueGet(announcement_queue)
           intro == PlaysIntro(last_sound_time, now)
       IN /\ announcement_queue' = got.rest
          /\ ap_cur' = [got.item EXCEPT !.intro = intro, !.got = now,
                                        !.last = last_sound_time]
          /\ ap_pc' = IF intro THEN "intro" ELSE "sound"
    /\ UNCHANGED <<enable_intro_sound, ss_config, data_read, ss_saved>>
    /\ UNCHANGED <<start_list_source_name, punch_queue, pp_pc,
                   last_sound_time, now, displayed, announced, other_playing,
                   delivered, registrations>>
    /\ UNCHANGED <<punch_vars, sl_vars, ol_vars>>

\* self.sound.play_sound(self.intro_sound_file) returns: the player ended
ApIntroDone ==
    /\ ap_pc = "intro"
    /\ ap_pc' = "sound"
    /\ UNCHANGED <<enable_intro_sound, ss_config, data_read, ss_saved>>
    /\ UNCHANGED <<start_list_source_name, punch_queue, announcement_queue,
                   pp_pc, ap_cur, last_sound_time, now, displayed, announced,
                   other_playing, delivered, registrations>>
    /\ UNCHANGED <<punch_vars, sl_vars, ol_vars>>

\* Sound._run_cmd: result.check_returncode() raises CalledProcessError when
\* the player fails; nothing in play_sound or _process_announcements catches
ApPlayFail ==
    /\ ap_pc \in {"intro", "sound"}
    /\ ap_pc' = "raised"
    /\ UNCHANGED <<enable_intro_sound, ss_config, data_read, ss_saved>>
    /\ UNCHANGED <<start_list_source_name, punch_queue, announcement_queue,
                   pp_pc, ap_cur, last_sound_time, now, displayed, announced,
                   other_playing, delivered, registrations>>
    /\ UNCHANGED <<punch_vars, sl_vars, ol_vars>>

\* (variant: the time is kept when no intro sound was played)
LastSoundTime_OnlyIntro(last, t, intro) == IF intro THEN t ELSE last

\* _process_announcements: self.last_sound_time = datetime.now()
LastSoundTime(last, t, intro) == t

\* self.sound.play_lang(...) returns and last_sound_time is set
ApSoundDone ==
    /\ ap_pc = "sound"
    /\ ap_pc' = "get"
    /\ last_sound_time' = LastSoundTime(last_sound_time, now, ap_cur.intro)
    /\ announced' = Append(announced, ap_cur)
    /\ ap_cur' = NoRequest
    /\ UNCHANGED <<enable_intro_sound, ss_config, data_read, ss_saved>>
    /\ UNCHANGED <<start_list_source_name, punch_queue, announcement_queue,
                   pp_pc, now, displayed, other_playing, delivered,
                   registrations>>
    /\ UNCHANGED <<punch_vars, sl_vars, ol_vars>>

\* Sound.play of another thread: the start list update sound of
\* StartListSourceFile._read_start_list (observer thread) or the test sound
\* of _play_test_sound (GUI thread); play_sound takes no lock
OtherPlayStart ==
    /\ ap_pc # "none"
    /\ ~other_playing
    /\ other_playing' = TRUE
    /\ UNCHANGED <<enable_intro_sound, ss_config, data_read, ss_saved>>
    /\ UNCHANGED <<start_list_source_name, punch_queue, announcement_queue,
                   pp_pc, ap_pc, ap_cur, last_sound_time, now, displayed,
                   announced, delivered, registrations>>
    /\ UNCHANGED <<punch_vars, sl_vars, ol_vars>>

OtherPlayEnd ==
    /\ other_playing
    /\ other_playing' = FALSE
    /\ UNCHANGED <<enable_intro_sound, ss_config, data_read, ss_saved>>
    /\ UNCHANGED <<start_list_source_name, punch_queue, announcement_queue,
                   pp_pc, ap_pc, ap_cur, last_sound_time, now, displayed,
                   announced, delivered, registrations>>
    /\ UNCHANGED <<punch_vars, sl_vars, ol_vars>>

\* A second passes. A thread blocked in Queue.get takes an entry as soon as
\* there is one.
Tick ==
    /\ ap_pc # "none"
    /\ now < MaxNow
    /\ ~(pp_pc = "get" /\ punch_queue # <<>>)
    /\ ~(ap_pc = "get" /\ announcement_queue # <<>>)
    /\ now' = now + 1
    /\ UNCHANGED <<enable_intro_sound, ss_config, data_read, ss_saved>>
    /\ UNCHANGED <<start_list_source_name, punch_queue, announcement_queue,
                   pp_pc, ap_pc, ap_cur, last_sound_time, displayed,
                   announced, other_playing, delivered, registrations>>
    /\ UNCHANGED <<punch_vars, sl_vars, ol_vars>>

\* PreWarning.__init__ and start(): empty queues, last_sound_time None, the
\* two threads started, the roster source of the configuration started
PwInitWith(names, enable, registered) ==
    /\ start_list_source_name \in names
    /\ enable_intro_sound \in enable
    /\ SsIdle
    /\ punch_queue = <<>>
    /\ announcement_queue = <<>>
    /\ pp_pc = "get"
    /\ ap_pc = "get"
    /\ ap_cur = NoRequest
    /\ last_sound_time = None
    /\ now = 0
    /\ displayed = <<>>
    /\ announced = <<>>
    /\ other_playing = FALSE
    /\ delivered = <<>>
    /\ registrations = [l \in Listeners |-> IF l \in registered THEN 1 ELSE 0]
    /\ MyIdle
    /\ SeIdle
    /\ config = DefaultSections
    /\ config_file = FileWith(DefaultSections)
    /\ prev_config_sections = DefaultSections
    /\ watch_scheduled = FALSE
    /\ fs_event = FALSE
    /\ w_pc = "idle"
    /\ punch_listeners = registered
    /\ received = [l \in Listeners |-> <<>>]
    /\ edits = 0
    /\ fault = "none"
    \* the start list file read at start(): card 7001 runs leg 1 of team 1
    /\ sl_file = [root |-> "StartList",
                  teams |-> <<[bib |-> 1, card |-> "7001", leg |-> 1]>>]
    /\ sl_pc = "none"
    /\ sl_running = (start_list_source_name = FileName)
    /\ sl_event = FALSE
    /\ sl_data = sl_file.teams
    /\ sl_idx = 1
    /\ team_names = "list"
    /\ runners = RunnersOf(sl_file.teams)
    /\ sl_old = EmptyRunners
    /\ sl_lookup = NoLookup
    \* the Results table: card 7001 has bib number 1 in relay leg 1
    /\ ol_results = <<[cardNumber |-> "7001", bibNumber |-> 1, relayLeg |-> 1]>>
    /\ ol_running = (start_list_source_name = OlaName)
    /\ ol_lookup = NoOlLookup

\* EnableIntroSound has its default_value, True.
PwInit == PwInitWith({FileName, OlaName}, {TRUE}, {})

PwNext ==
    \/ RegisterPunchListener
    \/ PunchReceived
    \/ ProcessPunch
    \/ ApGet
    \/ ApIntroDone
    \/ ApPlayFail
    \/ ApSoundDone
    \/ OtherPlayStart
    \/ OtherPlayEnd
    \/ Tick

SpecStage == PwInit /\ [][PwNext]_vars

\* The stage after update_sources has registered the application at the
\* punch source, with either roster and either value of EnableIntroSound,
\* without failures of the player and without sounds of other threads.
IntroInit == PwInitWith({FileName, OlaName}, BOOLEAN, {"app"})

IntroNext ==
    \/ PunchReceived
    \/ ProcessPunch
    \/ ApGet
    \/ ApIntroDone
    \/ ApSoundDone
    \/ Tick

SpecIntro == IntroInit /\ [][IntroNext]_vars

\* The two consumer threads are scheduled fairly: a thread that can take its
\* next step takes it, and a player that was started ends.
SpecIntroFair ==
    /\ SpecIntro
    /\ WF_vars(ProcessPunch)
    /\ WF_vars(ApGet)
    /\ WF_vars(ApIntroDone)
    /\ WF_vars(ApSoundDone)

\* ------------------------------------------------- PreWarning.update_sources
\* update_sources with PunchSource = olresultat.se while the database source
\* is the current one: is_running(), stop() of the old source (which clears
\* _running and does not join), the new source is constructed from the live
\* configuration and its state file, the application is registered in its
\* listener set and start() is called if the old source was running.  From
\* here on punch_listeners is the set of the new source; the set of the old
\* source holds the application as well.
UpdateSources ==
    /\ my_pc # "none"
    /\ se_proc = "none"
    /\ LET is_running == my_running
           cursor == IF StateDataRead(state_file)
                     THEN state_file.value
                     ELSE config[SeSec].LastReceivedPunchId
       IN /\ my_running' = FALSE
          /\ se_records' \in [1..NumRecords -> Codes]
          /\ se_last_received_punch_id' = cursor
          /\ se_control_codes' = config[SeSec].ControlCodes
          /\ se_start_cursor' = cursor
          /\ state_file' = StateRead(state_file)
          /\ punch_listeners' = register_punch_listener({}, "app")
          /\ se_proc' = "up"
          /\ se_running' = is_running
          /\ se_pc' = IF is_running THEN "loop" ELSE "none"
    /\ UNCHANGED <<se_lines, se_idx, se_first_cursor, se_run_received,
                   se_lrp_edited, crashes>>
    /\ UNCHANGED <<my_rows, my_pc, my_last_received_punch_id,
                   my_last_modify_time, my_last_written_punch_ids,
                   my_control_ids, split_times, my_idx>>
    /\ UNCHANGED <<cfg_vars, received, sl_vars, ol_vars, pw_vars, hist_vars>>

SwitchNext ==
    \/ MyStep
    \/ MyStop
    \/ UpdateSources
    \/ SeLoopTest
    \/ SeFetch
    \/ SeLine
    \/ SeSaveValue
    \/ SeUpdateLive
    \/ SeSleep

\* The database source runs with a backlog; the configuration is changed to
\* the other punch source at any moment.
SpecSwitch == RaceInit /\ [][SwitchNext]_vars

\* ----------------------------------------------------------- StateSaverMixin
\* The texts the option LastReceivedPunchId can have in a state file.
Texts == {ToString(n) : n \in -1..NumRecords} \cup {"", "abc"}

\* int(text) where it does not raise ValueError
int ==
    [t \in {ToString(n) : n \in -1..NumRecords} |->
        CHOOSE n \in -1..NumRecords : ToString(n) = t]

\* ConfigOptionDefinition.get_value, value_type int: getint with the
\* default_value 0 as fallback, None after a ValueError
option_get_value(parser) ==
    IF ~parser.option
    THEN [ok |-> TRUE, value |-> 0]
    ELSE IF parser.text \in DOMAIN int
    THEN [ok |-> TRUE, value |-> int[parser.text]]
    ELSE NoValue

\* ConfigOptionDefinition.set_value: config_section[self.name] = str(value)
option_set_value(parser, value) ==
    [parser EXCEPT !.section = TRUE, !.option = TRUE, !.text = ToString(value)]

\* validators.number_validators.is_not_negative_int
is_not_negative_int(value) == 0 <= value

\* ConfigParser.read of the state file: a missing file is skipped
ParserRead(file) == IF file.exists THEN file ELSE EmptyParser

\* __read_config_section: a missing section is created with the default and
\* data_read stays False, else data_read is True; a missing option, or one
\* whose get_value is None, gets the default and data_read is False; each
\* created default is written to the file
ReadConfigSection(parser) ==
    LET c1 == IF parser.section THEN parser
              ELSE StateFile(TRUE, TRUE, TRUE, ToString(0))
        c2 == IF c1.option THEN c1
              ELSE [c1 EXCEPT !.option = TRUE, !.text = ToString(0)]
        none == ~option_get_value(c2).ok
        c3 == IF none THEN [c2 EXCEPT !.text = ToString(0)] ELSE c2
    IN [config |-> c3,
        data_read |-> parser.section /\ c1.option /\ ~none,
        written |-> ~parser.section \/ ~c1.option \/ none]

\* __validate: an option with validation errors is set to its initial value
\* and the file is written; self.data_read is not touched
Validate(parser, read) ==
    LET v == option_get_value(parser)
    IN IF v.ok /\ ~is_not_negative_int(v.value)
       THEN [config |-> [parser EXCEPT !.text = ToString(0)],
             data_read |-> read, written |-> TRUE]
       ELSE [config |-> parser, data_read |-> read, written |-> FALSE]

\* StateSaverMixin.__init__: __read_state
ReadState(file) ==
    LET r == ReadConfigSection(ParserRead(file))
        v == Validate(r.config, r.data_read)
    IN [config |-> v.config, data_read |-> v.data_read,
        file |-> IF r.written \/ v.written THEN v.config ELSE file]

\* (variant: the cursor of the configuration is the one started from)
StartCursor_Config(read, stored, configured) == configured

\* PunchSourceOlresultatSe.__init__: the cursor of _parse_config is replaced
\* by the one of the state file if self._data_read(...)
StartCursor(read, stored, configured) == IF read THEN stored ELSE configured

\* PunchSourceOlresultatSe.__init__ of a new process: Config has read the
\* configuration file, the mixin reads the state file, the source takes its
\* cursor and pushes the one of the state file into the live configuration
SsConstruct ==
    /\ se_proc = "down"
    /\ LET st == ReadState(state_file)
           stored == option_get_value(st.config).value
           cursor == StartCursor(st.data_read, stored,
                                 config[SeSec].LastReceivedPunchId)
       IN /\ ss_config' = st.config
          /\ data_read' = st.data_read
          /\ state_file' = st.file
          /\ se_last_received_punch_id' = cursor
          /\ se_start_cursor' = cursor
          /\ config' = IF st.data_read
                       THEN UpdateLiveSectionOption(config, SeSec, cursor)
                       ELSE config
    /\ se_proc' = "up"
    /\ se_pc' = "run"
    /\ UNCHANGED <<se_records, se_running, se_control_codes, se_lines, se_idx,
                   se_first_cursor, se_run_received, se_lrp_edited, crashes>>
    /\ UNCHANGED <<config_file, prev_config_sections, watch_scheduled, fs_event,
                   w_pc, new_last_received_punch_id>>
    /\ UNCHANGED <<my_vars, lst_vars, sl_vars, ol_vars, hist_vars, ss_saved>>
    /\ UNCHANGED <<start_list_source_name, punch_queue, announcement_queue,
                   pp_pc, ap_pc, ap_cur, last_sound_time, now, displayed,
                   announced, other_playing, delivered, registrations,
                   enable_intro_sound>>

\* _save_state after a batch that advanced the cursor: _save_value sets the
\* option in the parser and __write opens the file with mode 'w', which
\* truncates it
SsSaveOpen ==
    /\ se_proc = "up"
    /\ se_pc = "run"
    /\ \E id \in 1..NumRecords :
          /\ id > se_last_received_punch_id
          /\ se_last_received_punch_id' = id
          /\ ss_config' = option_set_value(ss_config, id)
    /\ state_file' = EmptyParser
    /\ se_pc' = "write"
    /\ UNCHANGED <<se_records, se_proc, se_running, se_control_codes, se_lines,
                   se_idx, se_hist>>
    /\ UNCHANGED <<my_vars, cfg_vars, lst_vars, sl_vars, ol_vars, hist_vars,
                   data_read, ss_saved>>
    /\ UNCHANGED <<start_list_source_name, punch_queue, announcement_queue,
                   pp_pc, ap_pc, ap_cur, last_sound_time, now, displayed,
                   announced, other_playing, delivered, registrations,
                   enable_intro_sound>>

\* __write: self.config.write(state_file) and the file is closed; _save_state
\* goes on with Config().update_live_section_option
SsSaveClose ==
    /\ se_proc = "up"
    /\ se_pc = "write"
    /\ state_file' = ss_config
    /\ ss_saved' = [ok |-> TRUE, value |-> se_last_received_punch_id]
    /\ config' = UpdateLiveSectionOption(config, SeSec, se_last_received_punch_id)
    /\ se_pc' = "run"
    /\ UNCHANGED <<se_records, se_proc, se_running, se_last_received_punch_id,
                   se_control_codes, se_lines, se_idx, se_hist>>
    /\ UNCHANGED <<config_file, prev_config_sections, watch_scheduled, fs_event,
                   w_pc, new_last_received_punch_id>>
    /\ UNCHANGED <<my_vars, lst_vars, sl_vars, ol_vars, hist_vars, ss_config,
                   data_read>>
    /\ UNCHANGED <<start_list_source_name, punch_queue, announcement_queue,
                   pp_pc, ap_pc, ap_cur, last_sound_time, now, displayed,
                   announced, other_playing, delivered, registrations,
                   enable_intro_sound>>

\* The memory of the process is gone: the live configuration of the next
\* process is what Config reads from the configuration file.
SsDown ==
    /\ se_proc' = "down"
    /\ se_pc' = "none"
    /\ se_last_received_punch_id' = 0
    /\ ss_config' = EmptyParser
    /\ data_read' = FALSE
    /\ config' = ConfigRead(DefaultSections, config_file)
    /\ UNCHANGED <<se_records, se_running, se_control_codes, se_lines, se_idx,
                   se_start_cursor, se_first_cursor, se_run_received,
                   se_lrp_edited>>
    /\ UNCHANGED <<prev_config_sections, watch_scheduled, fs_event, w_pc,
                   new_last_received_punch_id>>
    /\ UNCHANGED <<my_vars, lst_vars, sl_vars, ol_vars, hist_vars>>
    /\ UNCHANGED <<start_list_source_name, punch_queue, announcement_queue,
                   pp_pc, ap_pc, ap_cur, last_sound_time, now, displayed,
                   announced, other_playing, delivered, registrations,
                   enable_intro_sound>>

\* The process is killed, at any point and also between the open and the
\* close of __write; neither _cleanup nor the final Config().write() runs.
SsKill ==
    /\ se_proc = "up"
    /\ crashes < MaxCrashes
    /\ crashes' = crashes + 1
    /\ SsDown
    /\ UNCHANGED <<state_file, config_file, ss_saved>>

\* The source is stopped: the loop ends with Config().write() and _cleanup(),
\* which unlinks the state file; then the process ends.
SsCleanup ==
    /\ se_proc = "up"
    /\ se_pc = "run"
    /\ config_file' = FileWith(config)
    /\ state_file' = NoFile
    /\ ss_saved' = NoValue
    /\ SsDown
    /\ UNCHANGED crashes

\* No process runs. The configuration file holds a cursor; the state file is
\* missing or holds any text a crash or an edit may have left in it.
SsInit ==
    /\ state_file \in {NoFile, EmptyParser, StateFile(TRUE, TRUE, FALSE, "")}
                      \cup {StateFile(TRUE, TRUE, TRUE, t) : t \in Texts}
    /\ \E id \in 0..NumRecords :
          /\ config_file = FileWith([DefaultSections EXCEPT
                                        ![SeSec].LastReceivedPunchId = id])
          /\ config = config_file.sections
    /\ prev_config_sections = DefaultSections
    /\ watch_scheduled = FALSE
    /\ fs_event = FALSE
    /\ w_pc = "idle"
    /\ se_records = <<>>
    /\ se_proc = "down"
    /\ se_pc = "none"
    /\ se_running = FALSE
    /\ se_last_received_punch_id = 0
    /\ se_control_codes = {}
    /\ se_lines = <<>>
    /\ se_idx = 1
    /\ se_start_cursor = 0
    /\ se_first_cursor = 0
    /\ se_run_received = <<>>
    /\ se_lrp_edited = FALSE
    /\ crashes = 0
    /\ punch_listeners = {}
    /\ received = [l \in Listeners |-> <<>>]
    /\ edits = 0
    /\ fault = "none"
    /\ MyIdle
    /\ SlIdle
    /\ OlIdle
    /\ PwIdle

SsNext ==
    \/ SsConstruct
    \/ SsSaveOpen
    \/ SsSaveClose
    \/ SsKill
    \/ SsCleanup

SpecSaver == SsInit /\ [][SsNext]_vars

\* ------------------------------------------------------------------ claims
\* The callback is between reading the incoming id and the end of its
\* accept-or-reject decision.
PDeciding == w_pc \in {"p_test", "p_set_time", "p_set_id", "p_clear"}

\* A cursor whose id and watermark come from one row (or is the empty cursor).
SameEvent(id, time) ==
    \/ id = 0 /\ time = 0
    \/ id \in DOMAIN my_rows /\ my_rows[id].modifyDate = time

Pos(s, x) == CHOOSE i \in DOMAIN s : s[i] = x

\* C1: with no external edit of the configuration, no listener is handed the
\* same row id twice, whatever the modifyDate values of the backlog.
C1_NoDuplicateDelivery ==
    edits = 0 => \A l \in Listeners : NoDuplicates(received[l])

\* C2: a source constructed and started on a persisted cursor c hands its
\* listeners only ids greater than c and none of them twice, as long as the
\* configuration file is not edited.
C2_ResumeAfterPersistedCursor ==
    (se_proc = "up" /\ edits = 0) =>
        /\ \A i \in DOMAIN se_run_received : se_run_received[i] > se_start_cursor
        /\ NoDuplicates(se_run_received)

C2_Witness ==
    /\ se_proc = "up"
    /\ edits = 0
    /\ crashes > 0
    /\ se_start_cursor = 1
    /\ se_start_cursor # config_file.sections[SeSec].LastReceivedPunchId
    /\ se_run_received = <<2>>
    /\ se_pc = "sleep"
    /\ se_lines = <<>>

\* C3: the held cursor never returns to an earlier value: no step of the loop
\* or of a reload callback lowers last_modify_time or last_received_punch_id
\* (no external edit happens in this specification).
C3_CursorNeverRegresses ==
    [][/\ my_last_modify_time' >= my_last_modify_time
       /\ my_last_received_punch_id' >= my_last_received_punch_id]_vars

\* C4: while LastReceivedPunchId has not been edited in the file, the id the
\* URL source holds is never below the id it saved last, also after a reload
\* caused by an edit of another option of its section.
C4_NeverBelowSavedId ==
    (se_proc = "up" /\ ~se_lrp_edited /\ state_file.exists) =>
        se_last_received_punch_id >= state_file.value

\* The reload delivers the section exactly as the loop wrote it last, and the
\* loop has made no further advance since.
RoundTrip ==
    /\ my_written # NoWrite
    /\ new_last_received_punch_id = my_written.id
    /\ config[MySec] = [LastModifiedTime |-> my_written.time,
                        LastReceivedPunchId |-> my_written.id]
    /\ cb0.id = my_written.id
    /\ cb0.time = my_written.time

C8_AdvanceAndDecisionExclusive ==
    /\ ~(MyAdvancing /\ PDeciding)
    /\ ~MyAdvancing =>
          SameEvent(my_last_received_punch_id, my_last_modify_time)
    /\ ~config_file.empty =>
          SameEvent(config_file.sections[MySec].LastReceivedPunchId,
                    config_file.sections[MySec].LastModifiedTime)

\* C9: however the process is killed and started again on the same records,
\* no listener is handed an id twice, and every selected record between the
\* cursor of the first start and the persisted cursor has been handed to every
\* listener (the configuration file is not edited).
C9_KillAndRestartExactlyOnce ==
    edits = 0 =>
        \A l \in punch_listeners :
            /\ NoDuplicates(received[l])
            /\ \A id \in DOMAIN se_records :
                  (/\ se_first_cursor < id
                   /\ ~config_file.empty
                   /\ id <= PersistedCursor(state_file, config_file)
                   /\ se_records[id] \in DefaultSections[SeSec].ControlCodes)
                      => InSeq(id, received[l])

\* C10: with no external edit, every listener has been handed the punches of
\* the current batch in the order of the batch, the id held as
\* last_received_punch_id has been handed to every listener, and every row
\* modified before the held watermark has been handed to every listener
\* unless its control is not among the selected ones.
C10_DeliveredBeforeCursor ==
    edits = 0 =>
        \A l \in punch_listeners :
            /\ my_last_received_punch_id # 0
                  => InSeq(my_last_received_punch_id, received[l])
            /\ \A i \in DOMAIN my_rows :
                  my_rows[i].modifyDate < my_last_modify_time
                      => \/ my_rows[i].controlCode \notin my_control_ids
                         \/ InSeq(i, received[l])
            /\ Len(my_iter_received) <= Len(received[l])
            /\ my_iter_received =
                  SubSeq(received[l],
                         Len(received[l]) - Len(my_iter_received) + 1,
                         Len(received[l]))
            /\ \A a, b \in DOMAIN my_iter_received :
                  a < b => /\ InSeq(my_iter_received[a], split_times)
                           /\ InSeq(my_iter_received[b], split_times)
                           /\ Pos(split_times, my_iter_received[a])
                                 < Pos(split_times, my_iter_received[b])

C10_Witness ==
    /\ edits = 0
    /\ my_pc = "iter"
    /\ Len(my_iter_received) = NumRows
    /\ my_last_received_punch_id = split_times[NumRows]
    /\ \E i \in DOMAIN my_rows : my_rows[i].modifyDate < my_last_modify_time

\* C11: a fetched record whose control code is not among the configured ones
\* is handed to no listener, and when the batch has been worked through the
\* held cursor is at or past the id of every record of the batch (the
\* configuration file is not edited).
C11_IrrelevantSkippedCursorAdvances ==
    edits = 0 =>
        /\ \A l \in Listeners : \A i \in DOMAIN received[l] :
              se_records[received[l][i]] \in DefaultSections[SeSec].ControlCodes
        /\ se_pc \in {"save_value", "update_live"} =>
              \A k \in DOMAIN se_lines :
                  se_last_received_punch_id >= se_lines[k]

C11_Witness ==
    /\ edits = 0
    /\ se_pc = "save_value"
    /\ se_lines = <<1, 2>>
    /\ se_records[2] \notin se_control_codes
    /\ se_last_received_punch_id = 2
    /\ \A l \in Listeners : received[l] = <<1>>

\* C12: once the loop has written a cursor, at the start of every poll
\* iteration the configuration file holds the id and the watermark the source
\* holds in memory, also when a reload runs while the loop writes.
C12_PersistedBeforeNextPoll ==
    (my_pc = "loop" /\ my_written # NoWrite) =>
        /\ ~config_file.empty
        /\ config_file.sections[MySec].LastReceivedPunchId
              = my_last_received_punch_id
        /\ config_file.sections[MySec].LastModifiedTime = my_last_modify_time

\* C13: the step in which a fetch fails with a transport error hands nothing
\* to the listeners and changes neither the held cursor nor the stored one;
\* the loop goes to its sleep and from there to the next test of the loop.
C13_TransportErrorKeepsCursor ==
    [][/\ (fault = "none" /\ fault' = "transport") =>
             /\ received' = received
             /\ my_last_received_punch_id' = my_last_received_punch_id
             /\ my_last_modify_time' = my_last_modify_time
             /\ se_last_received_punch_id' = se_last_received_punch_id
             /\ config_file' = config_file
             /\ state_file' = state_file
             /\ (my_pc # "none" => my_pc' = "sleep")
             /\ (my_pc = "none" => se_pc' = "sleep")
       /\ (fault = "transport" /\ fault' = "transport" /\ my_pc' # my_pc)
             => my_pc' = "loop"
       /\ (/\ fault = "transport" /\ fault' = "transport"
           /\ se_pc' # se_pc /\ se_proc' = "up")
             => se_pc' = "loop"]_vars

C13_Witness ==
    /\ fault = "transport"
    /\ my_pc = "sleep"
    /\ my_last_received_punch_id = NumRows
    /\ my_last_modify_time > 0
    /\ \A l \in Listeners : Len(received[l]) = NumRows

\* C14: after a malformed response or a query error that is not an
\* OperationalError the polling thread has not ended: the loop is at its
\* sleep or at the next test of the loop.
C14_OtherErrorKeepsLoopAlive ==
    fault = "other" =>
        /\ my_pc # "none" => my_pc \in {"sleep", "loop"}
        /\ se_proc = "up" => se_pc \in {"sleep", "loop"}

\* C15: after a failed write of the cursor (configuration file or state file)
\* the polling thread has not ended: the loop goes on with the batch or is at
\* its sleep or at the next test of the loop.
C15_WriteFailureKeepsLoopAlive ==
    fault = "write" =>
        /\ my_pc # "none" => my_pc \in {"iter", "sleep", "loop"}
        /\ se_proc = "up" => se_pc \in {"sleep", "loop"}

\* C16: after stop() the source is not running, the loop starts a fetch only
\* when its test of the running flag found it set, a loop that has exited
\* stays exited, and when the loop has exited the configuration file holds an
\* id and a watermark that belong to one and the same row.
C16_StopLeavesWholeCursor ==
    [][/\ (my_pc = "loop" /\ my_pc' = "query") => my_running
       /\ my_pc = "stopped" => my_pc' = "stopped"
       /\ my_pc' = "stopped" =>
             /\ ~my_running'
             /\ ~config_file'.empty
             /\ SameEvent(config_file'.sections[MySec].LastReceivedPunchId,
                          config_file'.sections[MySec].LastModifiedTime)]_vars

\* C17: while the URL source shuts down and LastReceivedPunchId was not edited
\* in the file, one of the two stores holds the cursor the source holds: the
\* state file or the configuration file before the final write, the
\* configuration file after it; when the loop has ended the state file is
\* gone and the configuration file holds the cursor.
C17_ShutdownKeepsLatestCursor ==
    (se_proc = "up" /\ ~se_lrp_edited) =>
        /\ se_pc = "final_write" =>
              \/ /\ state_file.exists
                 /\ state_file.value = se_last_received_punch_id
              \/ /\ ~config_file.empty
                 /\ config_file.sections[SeSec].LastReceivedPunchId
                       = se_last_received_punch_id
        /\ se_pc \in {"cleanup", "stopped"} =>
              /\ ~config_file.empty
              /\ config_file.sections[SeSec].LastReceivedPunchId
                    = se_last_received_punch_id
        /\ se_pc = "stopped" => ~state_file.exists

\* C18: a lookup made while the start list file is being reloaded answers as
\* the roster before the reload or as the roster of the file being loaded; it
\* never sees the emptied or the partly refilled roster.
C18_LookupSeesOldOrNewRoster ==
    sl_lookup.during => sl_lookup.answer \in {sl_lookup.old, sl_lookup.new}

\* C19: every reload of a well-formed file completes and leaves the roster
\* equal to the runners of the file that was read, the second and later
\* reloads like the first.
C19_EveryReloadLoadsTheFile ==
    /\ sl_pc # "raised"
    /\ (sl_pc = "idle" /\ sl_running) => runners = RunnersOf(sl_data)

\* C20: a lookup that queried the database answers with the one row of the
\* card number when exactly one row matches, and with not found when no row
\* or more than one row matches.
C20_DbLookupOnlyUniqueMatch ==
    [][(ol_lookup' # ol_lookup /\ ol_lookup'.outcome = "rows") =>
          LET hits == {i \in DOMAIN ol_results :
                          ol_results[i].cardNumber = ol_lookup'.card}
          IN IF Cardinality(hits) = 1
             THEN \E i \in hits :
                     ol_lookup'.answer =
                         [team_bib_number |-> ol_results[i].bibNumber,
                          leg |-> ol_results[i].relayLeg]
             ELSE ol_lookup'.answer = NoRunner]_vars

C20_Witness ==
    /\ ol_lookup.outcome = "rows"
    /\ ol_lookup.matches = 2
    /\ ol_lookup.answer = NoRunner
    /\ Len(ol_results) = 2
    /\ ol_results[1].cardNumber = ol_lookup.card
    /\ ol_results[2].cardNumber = ol_lookup.card
    /\ ol_results[1].bibNumber # ol_results[2].bibNumber

\* ------------------------------------------------- the two stages' claims
\* The card number has no entry in the active roster.
Unknown(card) ==
    IF start_list_source_name = FileName
    THEN \A k \in DOMAIN sl_data : sl_data[k].card # card
    ELSE \/ ~ol_running
         \/ Cardinality({k \in DOMAIN ol_results :
                            ol_results[k].cardNumber = card}) # 1

\* The bib number and relay leg the active roster has for a known card.
RosterEntry(card) ==
    IF start_list_source_name = FileName
    THEN LET k == CHOOSE k \in DOMAIN sl_data :
                     /\ sl_data[k].card = card
                     /\ \A j \in DOMAIN sl_data :
                           sl_data[j].card = card => j <= k
         IN [bib |-> sl_data[k].bib, leg |-> sl_data[k].leg]
    ELSE LET k == CHOOSE k \in DOMAIN ol_results :
                     ol_results[k].cardNumber = card
         IN [bib |-> ol_results[k].bibNumber, leg |-> ol_results[k].relayLeg]

\* The text of a bib number or relay leg on the display.
Text == 0 :> "-" @@ 1 :> "1" @@ 2 :> "2"

\* Every announcement request made so far, oldest first.
AllRequests ==
    announced \o (IF ap_cur = NoRequest THEN <<>> ELSE <<ap_cur>>)
              \o announcement_queue

RowsOf(id) == {k \in DOMAIN displayed : displayed[k].id = id}

RequestsOf(id) == {k \in DOMAIN AllRequests : AllRequests[k].id = id}

\* The punch has a card number, carries no bibNumber and is not in the roster.
Droppable(punch) ==
    /\ "cardNumber" \in punch.keys
    /\ "bibNumber" \notin punch.keys
    /\ Unknown(punch.cardNumber)

\* C21: when the enrichment stage takes an event without bibNumber whose card
\* number has no roster entry, it adds no display row and no announcement
\* request, and it goes on with the next event.
C21_UnknownCardDropped ==
    [][(punch_queue # <<>> /\ Len(punch_queue') < Len(punch_queue)
        /\ Droppable(Head(punch_queue))) =>
          /\ punch_queue' = Tail(punch_queue)
          /\ displayed' = displayed
          /\ announcement_queue' = announcement_queue
          /\ pp_pc' = "get"]_vars

C21_Witness ==
    /\ Len(delivered) = 2
    /\ received["app"] = <<1, 2>>
    /\ Droppable(delivered[1].punch)
    /\ "passedTime" \in delivered[1].punch.keys
    /\ punch_queue = <<>>
    /\ pp_pc = "get"
    /\ RowsOf(1) = {} /\ RequestsOf(1) = {}
    /\ RowsOf(2) = {1} /\ RequestsOf(2) = {1}

\* The event reached the enrichment stage, was taken from the queue and is
\* neither dropped nor lacking a field.
Enriched(id) ==
    LET p == delivered[id].punch
    IN /\ InSeq(id, received["app"])
       /\ \A k \in DOMAIN punch_queue : punch_queue[k].id # id
       /\ {"cardNumber", "passedTime"} \subseteq p.keys
       /\ ~Droppable(p)

\* The bib number and relay leg an enriched event is shown with.
Shown(p) ==
    IF "bibNumber" \in p.keys
          /\ (start_list_source_name = OlaName \/ Unknown(p.cardNumber))
    THEN [bib |-> p.bibNumber, leg |-> p.relayLeg]
    ELSE RosterEntry(p.cardNumber)

\* C22: every event that is taken from the queue and not dropped has exactly
\* one display row (time of day of passedTime, bib, leg, "-" for None) and
\* exactly one announcement request, with no language and the bib text as its
\* sound key.
C22_OneRowOneAnnouncement ==
    \A id \in DOMAIN delivered :
        LET p == delivered[id].punch
        IN /\ Enriched(id) =>
                /\ Cardinality(RowsOf(id)) = 1
                /\ Cardinality(RequestsOf(id)) = 1
           /\ \A k \in RowsOf(id) :
                /\ displayed[k].time =
                      (IF p.passedTime = <<>> THEN "-"
                       ELSE p.passedTime[Len(p.passedTime)])
                /\ displayed[k].team = Text[Shown(p).bib]
                /\ displayed[k].leg = Text[Shown(p).leg]
           /\ \A k \in RequestsOf(id) :
                /\ AllRequests[k].language = "None"
                /\ AllRequests[k].sound = Text[Shown(p).bib]

C22_Witness ==
    /\ start_list_source_name = FileName
    /\ Len(delivered) = 2
    /\ delivered[1].punch.keys = {"cardNumber", "passedTime"}
    /\ delivered[1].punch.cardNumber = "7001"
    /\ delivered[2].punch.bibNumber = 2
    /\ delivered[2].punch.cardNumber = "7002"
    /\ Len(displayed) = 2
    /\ displayed[1].time = "10:15:30" /\ displayed[1].team = "1"
    /\ displayed[1].leg = "1"
    /\ displayed[2].time = "10:15:31" /\ displayed[2].team = "2"
    /\ displayed[2].leg = "1"
    /\ Len(announced) = 2
    /\ announced[1].sound = "1" /\ announced[2].sound = "2"

\* C23: an event that carries bibNumber and relayLeg is not looked up in the
\* roster when the database roster source is the configured one; its display
\* row and its announcement use the values the event came with.
C23_PreJoinedNotLookedUp ==
    \A id \in DOMAIN delivered :
        LET p == delivered[id].punch
        IN ("bibNumber" \in p.keys /\ start_list_source_name = OlaName) =>
              /\ \A k \in RowsOf(id) :
                    /\ ~displayed[k].looked_up
                    /\ displayed[k].team = Text[p.bibNumber]
                    /\ displayed[k].leg = Text[p.relayLeg]
              /\ \A k \in RequestsOf(id) :
                    AllRequests[k].sound = Text[p.bibNumber]

C23_Witness ==
    /\ start_list_source_name = OlaName
    /\ Len(delivered) = 1
    /\ delivered[1].punch.cardNumber = "7001"
    /\ delivered[1].punch.bibNumber = 2
    /\ Len(displayed) = 1
    /\ displayed[1].team = "2" /\ ~displayed[1].looked_up
    /\ Len(announced) = 1 /\ announced[1].sound = "2"

\* The requests taken from the announcement queue, oldest first.
Taken == announced \o (IF ap_cur = NoRequest THEN <<>> ELSE <<ap_cur>>)

\* C24: the intro sound is played before a request exactly when no
\* announcement was made before or the last one is at least the timeout ago;
\* of two requests made less than the timeout apart the second gets no intro
\* sound, of two requests made at least one and a half timeouts apart the
\* second gets one.
C24_IntroDebounced ==
    /\ \A k \in DOMAIN Taken :
          Taken[k].intro <=>
              \/ Taken[k].last = None
              \/ Taken[k].got - Taken[k].last >= IntroSoundTriggerTimeoutSeconds
    /\ \A k \in DOMAIN Taken :
          k > 1 =>
             /\ Taken[k].at - Taken[k - 1].at < IntroSoundTriggerTimeoutSeconds
                   => ~Taken[k].intro
             /\ 2 * (Taken[k].at - Taken[k - 1].at)
                      >= 3 * IntroSoundTriggerTimeoutSeconds
                   => Taken[k].intro

\* C25: when the processing of an announcement request ends, last_sound_time
\* is the current time, with and without the intro sound.
C25_LastSoundTimeAlwaysSet ==
    [][announced' # announced => last_sound_time' = now']_vars

C25_Witness ==
    /\ Len(announced) = 2
    /\ announced[1].intro
    /\ ~announced[2].intro
    /\ ap_pc = "get"
    /\ now > announced[2].got
    /\ announced[2].last < now
    /\ last_sound_time = now

\* C26: no two playbacks are in progress at once.
C26_OnePlaybackAtATime ==
    ~(ap_pc \in {"intro", "sound"} /\ other_playing)

\* C27: display rows are added and announcements are requested and played in
\* the order in which the punch source delivered the events.
C27_FifoEndToEnd ==
    /\ \A j, k \in DOMAIN displayed :
          j < k => displayed[j].id < displayed[k].id
    /\ \A j, k \in DOMAIN AllRequests :
          j < k => AllRequests[j].id < AllRequests[k].id

C27_Witness ==
    /\ Len(displayed) = 2
    /\ displayed[1].id = 1 /\ displayed[2].id = 2
    /\ Len(announced) = 2
    /\ announced[1].id = 1 /\ announced[2].id = 2
    /\ announced[2].at <= announced[1].got

\* C28: a bad record never ends the enrichment stage.
C28_BadPunchSkipped == pp_pc # "raised"

\* C29: a failed playback never ends the announcement stage.
C29_AudioFailureNotFatal == ap_pc # "raised"

\* C30: however often a listener was registered, each delivered event reaches
\* it exactly once; a listener never registered gets nothing.
C30_RegistrationIdempotent ==
    [][delivered' # delivered =>
          \A l \in Listeners :
              IF registrations[l] >= 1
              THEN received'[l] = Append(received[l], Len(delivered'))
              ELSE received'[l] = received[l]]_vars

C30_Witness ==
    /\ Len(delivered) = 2
    /\ delivered[1].regs["app"] = 1
    /\ delivered[2].regs["app"] = 2
    /\ received["app"] = <<1, 2>>
    /\ Len(punch_queue) + Len(displayed) = 2

\* C33: in both source variants the step of the batch loop that meets an
\* event whose id equals the held lastId hands nothing to the listeners and
\* leaves the cursor as it is.
C33_SkipsCurrentId ==
    [][/\ (/\ my_pc = "iter" /\ my_idx <= Len(split_times)
           /\ split_times[my_idx] = my_last_received_punch_id
           /\ my_idx' # my_idx)
             => /\ received' = received
                /\ my_last_received_punch_id' = my_last_received_punch_id
                /\ my_last_modify_time' = my_last_modify_time
       /\ (/\ se_proc = "up" /\ se_pc = "iter"
           /\ se_lines[se_idx] = se_last_received_punch_id
           /\ se_idx' # se_idx)
             => /\ received' = received
                /\ se_last_received_punch_id' = se_last_received_punch_id]_vars

\* C34: a reload of the file roster that finds a file that does not parse or
\* whose root element is not the IOF v3 StartList raises, and neither that step
\* nor the return of the exception changes the roster: every lookup answers
\* as it did before the reload.
C34_MalformedKeepsRoster ==
    [][(/\ sl_pc \in {"read", "raised"}
        /\ sl_file.root # "StartList"
        /\ sl_pc' # sl_pc)
          => /\ sl_pc = "read" => sl_pc' = "raised"
             /\ runners' = runners
             /\ team_names' = team_names
             /\ \A card \in Cards :
                   StartListFileLookup(runners', card) =
                       StartListFileLookup(runners, card)]_vars

\* A reload has raised on a malformed file while the roster of the earlier
\* file, which has a runner, is still the one held.
C34_Witness ==
    /\ sl_pc = "raised"
    /\ sl_file.root # "StartList"
    /\ sl_running
    /\ runners # EmptyRunners
    /\ runners = RunnersOf(sl_data)

\* C31: while EnableIntroSound is false no announcement is preceded by the
\* intro cue: neither the request being played nor any request played was
\* taken with the decision to play the intro sound.
C31_NoIntroWhenDisabled ==
    ~enable_intro_sound =>
        /\ ap_pc # "intro"
        /\ \A k \in DOMAIN announced : ~announced[k].intro

\* The event carries bibNumber and relayLeg and was taken from the queue by
\* a pass of the loop that did not raise on it.
PreJoinedTaken(id) ==
    LET p == delivered[id].punch
    IN /\ {"cardNumber", "passedTime", "bibNumber", "relayLeg"} \subseteq p.keys
       /\ InSeq(id, received["app"])
       /\ \A k \in DOMAIN punch_queue : punch_queue[k].id # id

\* C39: an event that carries bibNumber and relayLeg and was taken by the
\* enrichment stage has exactly one display row and exactly one announcement
\* request; with the file roster the row was looked up and shows the values
\* of the roster entry when the card is in the roster, and the values the
\* event came with when it is not.
C39_PreJoinedNeverDropped ==
    \A id \in DOMAIN delivered :
        LET p == delivered[id].punch
        IN PreJoinedTaken(id) =>
              /\ Cardinality(RowsOf(id)) = 1
              /\ Cardinality(RequestsOf(id)) = 1
              /\ start_list_source_name = FileName =>
                    LET shown == IF Unknown(p.cardNumber)
                                 THEN [bib |-> p.bibNumber, leg |-> p.relayLeg]
                                 ELSE RosterEntry(p.cardNumber)
                    IN /\ \A k \in RowsOf(id) :
                             /\ displayed[k].looked_up
                             /\ displayed[k].team = Text[shown.bib]
                             /\ displayed[k].leg = Text[shown.leg]
                       /\ \A k \in RequestsOf(id) :
                             AllRequests[k].sound = Text[shown.bib]

\* With the file roster two events came with bib number 2: the one of card
\* 7001 is shown with the bib number 1 of the roster, the one of the unknown
\* card 7002 with its own.
C39_Witness ==
    /\ start_list_source_name = FileName
    /\ Len(delivered) = 2
    /\ PreJoinedTaken(1) /\ PreJoinedTaken(2)
    /\ delivered[1].punch.cardNumber = "7001"
    /\ delivered[1].punch.bibNumber = 2
    /\ delivered[2].punch.cardNumber = "7002"
    /\ delivered[2].punch.bibNumber = 2
    /\ Len(displayed) = 2
    /\ displayed[1].team = "1" /\ displayed[2].team = "2"
    /\ Len(announced) = 2
    /\ announced[1].sound = "1" /\ announced[2].sound = "2"

\* C37: the switch of the punch source stops the old source, registers the
\* application at the new one and starts it exactly when the old one was
\* running; once the switch has returned no step of the old source's loop
\* hands an event to a listener.
C37_OnlyNewSourceDelivers ==
    [][/\ (se_proc = "none" /\ se_proc' = "up") =>
             /\ ~my_running'
             /\ "app" \in punch_listeners'
             /\ se_running' = my_running
       /\ (se_proc = "up" /\ my_pc' # my_pc) => received' = received]_vars

ValidStored(file) ==
    /\ file.exists /\ file.section /\ file.option
    /\ file.text \in DOMAIN int
    /\ int[file.text] >= 0

\* C32: a new StateSaverMixin on a state file on which a _save_value has
\* returned, with no _cleanup since, reports the option as read and returns
\* the value of that _save_value, however the earlier process has ended.
C32_SavedValueSurvives ==
    [][(SsConstruct /\ ss_saved.ok) =>
          /\ data_read'
          /\ option_get_value(ss_config') = ss_saved]_vars

\* C35: the mixin reports the option as read only when the state file held
\* a valid value for it; when the stored value is missing, unparsable or
\* negative the source starts from the cursor of the configuration and
\* pushes nothing into the live configuration.
C35_DataReadOnlyValid ==
    [][SsConstruct =>
          /\ data_read' => ValidStored(state_file)
          /\ ~ValidStored(state_file) =>
                /\ se_last_received_punch_id' =
                      config[SeSec].LastReceivedPunchId
                /\ config' = config]_vars

\* C36: a source constructed on a state file that holds a cursor starts from
\* that cursor and puts it into the live configuration, whatever the
\* configuration file holds; a source that read no state data starts from
\* the cursor of the configuration and leaves the live configuration alone.
C36_StateFileWins ==
    [][SsConstruct =>
          /\ ValidStored(state_file) =>
                /\ se_last_received_punch_id' = int[state_file.text]
                /\ config'[SeSec].LastReceivedPunchId = int[state_file.text]
          /\ ~data_read' =>
                /\ se_last_received_punch_id' =
                      config[SeSec].LastReceivedPunchId
                /\ config' = config]_vars

\* After a kill the new process has started from the cursor the killed one
\* had saved, which is not the one of the configuration file.
C36_Witness ==
    /\ se_proc = "up"
    /\ se_pc = "run"
    /\ crashes = 1
    /\ data_read
    /\ ss_saved.ok
    /\ se_start_cursor = ss_saved.value
    /\ se_last_received_punch_id = se_start_cursor
    /\ config[SeSec].LastReceivedPunchId = se_start_cursor
    /\ config_file.sections[SeSec].LastReceivedPunchId # se_start_cursor
    /\ state_file = StateFile(TRUE, TRUE, TRUE, ToString(se_start_cursor))

\* The event was taken from the queue and skipped for want of a roster entry.
Dropped(id) ==
    /\ id \in DOMAIN delivered
    /\ Droppable(delivered[id].punch)
    /\ \A k \in DOMAIN punch_queue : punch_queue[k].id # id
    /\ RowsOf(id) = {}

\* The event has a display row and its announcement has been played.
ShownAndPlayed(id) ==
    /\ RowsOf(id) # {}
    /\ \E k \in DOMAIN announced : announced[k].id = id

\* C40: with the two consumer threads scheduled fairly and no failure of the
\* player or of the roster lookup, every event handed to the application is
\* eventually dropped for want of a roster entry, or shown and played.
C40_DeliveredEventuallyHandled ==
    \A id \in 1..MaxPunches :
        InSeq(id, received["app"]) ~> (Dropped(id) \/ ShownAndPlayed(id))

====
